---- MODULE Spec2Model ----
(***************************************************************************)
(* Voice planner: the command resolution pipeline.                         *)
(*                                                                         *)
(*   server/services/aiParser.js   parseWeekdayInTranscript,               *)
(*                                 parseTimeInTranscript,                  *)
(*                                 extractReminderOffsets,                 *)
(*                                 parseVoiceCommand, parseMultipleCommands*)
(*   server/routes/ai.js           POST /api/ai/parse                      *)
(*   client/.../VoiceRecorder.tsx  parseWithServerAI                       *)
(*   client/src/App.tsx            handleVoiceCommand,                     *)
(*                                 handleFindTimeCommand,                  *)
(*                                 handleDeleteTask, handleUpdateTask      *)
(*   client/.../useSpeechRecognition.ts  the recognition callbacks         *)
(*                                                                         *)
(* The specifications share the variables below:                           *)
(*   SpecWeekday  the weekday/date resolver applied to one text            *)
(*   SpecText     the other text functions applied to one text             *)
(*   SpecParse    one parse request, client -> route -> parser -> client   *)
(*   SpecApp      the App component reconciling batches of commands        *)
(*   SpecSpeech   the speech recognition hook; SpecSpeechLive adds the     *)
(*                firing of its debounce timer as a fairness condition     *)
(*                                                                         *)
(* Conventions.  A text is a sequence of lower-case word tokens; a regular *)
(* expression of the source is matched token by token.  A Date is an       *)
(* instant in minutes since 1970-01-01T00:00Z; the machine's zone is a     *)
(* fixed offset tz in minutes east of UTC.  A JSON value is a record       *)
(* [k, v]: k its type ("absent", "string", "number", "bool", "list"), v    *)
(* its content as a tuple.  A "YYYY-MM-DD" string is <<y, m, d>>, an       *)
(* "HH:mm" string <<h, m>>, an ISO instant string <<minutes>>.             *)
(***************************************************************************)
EXTENDS Integers, Sequences, FiniteSets, TLC

VARIABLES
  now,          \* the clock of the machine running the code (an instant)
  tz,           \* its UTC offset, minutes east of UTC
  wkText,       \* SpecWeekday, SpecText: the text given to the function called
  wkResult,     \* SpecWeekday, SpecText: what it returned
  wkPc,         \* SpecWeekday: "call" before the call, "done" after;
                \* SpecText: "text" before the call, then the function called
  tasks,                \* App: useState<Task[]>, newest first
  lastScheduledTaskId,  \* App: useState<string | null>
  appPc,                \* App: "idle", or "findTime" inside handleVoiceCommand's await loop
  batch,                \* App: the commands handleVoiceCommand was last called with
  ftQueue,              \* App: batch positions of the findTime commands still to handle
  created,              \* App: history, [pos, id] of every task made for the last batch
  carriedIn,            \* App: history, lastScheduledTaskId when the last batch started
  clock,                \* App: Date.now(), a tick per handler step
  processed,            \* App: number of commands handled so far
  apiKey,       \* server: process.env.OPENAI_API_KEY is set (openai !== null)
  rawEnv,       \* server: process.env.USE_RAW_CHATGPT: "0", "1" or "unset"
  transcript,   \* client: the transcript the recorder finalized
  multiple,     \* request body: multipleCommands
  srvPc,        \* where the parse request is (see SpecParse)
  calls,        \* server: the parseVoiceCommand invocations of the request
  resolved,     \* server: history, the per-fragment results before post-processing
  settled,      \* server: history, the calls (their index in calls) in the
                \* order they returned
  reply,        \* the HTTP response: [status, data]
  clientResult, \* client: what parseWithServerAI returned
  recognizing,      \* hook: the recognition engine is started
  isListening,      \* hook: useState(false)
  keepAlive,        \* hook: keepAliveRef.current
  hookTranscript,   \* hook: useState(''), the transcript state
  hookConfidence,   \* hook: useState(0), in percent
  debounceTimeout,  \* hook: the pending timer callback of debounceTimeoutRef,
                    \* <<>> or <<the result it will deliver>>
  onResults,        \* hook: the results onResult was called with, in order
  finals,           \* hook: history, the final transcripts onresult received
  events            \* hook: number of result events so far

speechVars == <<recognizing, isListening, keepAlive, hookTranscript, hookConfidence,
                debounceTimeout, onResults, finals, events>>
wkVars == <<wkText, wkResult, wkPc>>
srvVars == <<apiKey, rawEnv, transcript, multiple, srvPc, calls, resolved, settled,
             reply, clientResult>>
appVars == <<tasks, lastScheduledTaskId, appPc, batch, ftQueue, created,
             carriedIn, clock, processed>>

----------------------------------------------------------------------------
(* JSON values *)

Absent == [k |-> "absent", v |-> <<>>]
JStr(t) == [k |-> "string", v |-> t]
JNum(n) == [k |-> "number", v |-> <<n>>]
IsAbsent(j) == j.k = "absent"
\* JavaScript truthiness of the values the model uses: undefined/null are
\* falsy, a non-empty string and a non-zero number are truthy.
Truthy(j) == j.k # "absent"

----------------------------------------------------------------------------
(* The Date object of the runtime, proleptic Gregorian calendar *)

MinutesPerDay == 24 * 60

\* day number (days since 1970-01-01) of the civil date y-m-d
DaysFromCivil(y, m, d) ==
  LET yy  == IF m <= 2 THEN y - 1 ELSE y
      era == yy \div 400
      yoe == yy - era * 400
      mp  == IF m > 2 THEN m - 3 ELSE m + 9
      doy == (153 * mp + 2) \div 5 + d - 1
      doe == yoe * 365 + yoe \div 4 - yoe \div 100 + doy
  IN  era * 146097 + doe - 719468

\* civil date <<y, m, d>> of a day number
CivilFromDays(z) ==
  LET zz  == z + 719468
      era == zz \div 146097
      doe == zz - era * 146097
      yoe == (doe - doe \div 1460 + doe \div 36524 - doe \div 146096) \div 365
      doy == doe - (365 * yoe + yoe \div 4 - yoe \div 100)
      mp  == (5 * doy + 2) \div 153
      d   == doy - (153 * mp + 2) \div 5 + 1
      m   == IF mp < 10 THEN mp + 3 ELSE mp - 9
      y   == yoe + era * 400
  IN  <<IF m <= 2 THEN y + 1 ELSE y, m, d>>

\* Date.prototype.getDay of a day number: 0 = Sunday (1970-01-01 was a Thursday)
DayOfWeek(z) == (z + 4) % 7

\* the local calendar day number of an instant in zone offset
LocalDay(t, offset) == (t + offset) \div MinutesPerDay
\* getFullYear / getMonth+1 / getDate as <<y, m, d>>
LocalCivil(t, offset) == CivilFromDays(LocalDay(t, offset))
\* getDay()
getDay(t, offset) == DayOfWeek(LocalDay(t, offset))
\* new Date(year, monthIndex, day, hours, minutes): local components to instant
\* (month here 1-based; day overflow is carried by the day number)
NewLocalDate(y, m, d, hh, mm, offset) ==
  (DaysFromCivil(y, m, 1) + d - 1) * MinutesPerDay + hh * 60 + mm - offset
\* date.setDate(date.getDate() + n): n local days later, same local clock time
SetDatePlus(t, n) == t + n * MinutesPerDay
\* toISOString().split('T')[0]: the calendar date of the instant in UTC
ISODatePart(t) == CivilFromDays(t \div MinutesPerDay)
\* the template `${getFullYear()}-${getMonth()+1}-${getDate()}` (padded)
LocalDateString(t, offset) == LocalCivil(t, offset)

----------------------------------------------------------------------------
(* Temporal resolver: server/services/aiParser.js *)

weekdays == <<"sunday", "monday", "tuesday", "wednesday", "thursday",
              "friday", "saturday">>

\* monthNames, 1-based month of a token, 0 when the token is no month name
monthNames(tok) ==
  CASE tok \in {"january", "jan"}    -> 1
    [] tok \in {"february", "feb"}   -> 2
    [] tok \in {"march", "mar"}      -> 3
    [] tok \in {"april", "apr"}      -> 4
    [] tok = "may"                   -> 5
    [] tok \in {"june", "jun"}       -> 6
    [] tok \in {"july", "jul"}       -> 7
    [] tok \in {"august", "aug"}     -> 8
    [] tok \in {"september", "sep"}  -> 9
    [] tok \in {"october", "oct"}    -> 10
    [] tok \in {"november", "nov"}   -> 11
    [] tok \in {"december", "dec"}   -> 12
    [] OTHER                         -> 0

\* parseInt of a token matching (\d{1,2})(?:st|nd|rd|th)?, 0 when it does not
dayNumber(tok) ==
  CASE tok \in {"1", "1st"}     -> 1
    [] tok \in {"5", "5th"}     -> 5
    [] tok \in {"18", "18th"}   -> 18
    [] tok \in {"31", "31st"}   -> 31
    [] OTHER                    -> 0

Includes(text, tok) == \E i \in 1..Len(text) : text[i] = tok

\* the months written in full and the three-letter forms ("may" is both)
FullMonths == {"january", "february", "march", "april", "may", "june", "july",
               "august", "september", "october", "november", "december"}
ShortMonths == {"jan", "feb", "mar", "apr", "may", "jun", "jul", "aug", "sep",
                "oct", "nov", "dec"}

\* datePatterns[p]: the positions where pattern p matches
PatternMatches(text, p) ==
  {i \in 1..(Len(text) - 1) :
     CASE p = 1 -> text[i] \in FullMonths /\ dayNumber(text[i + 1]) > 0
       [] p = 2 -> text[i] \in ShortMonths /\ dayNumber(text[i + 1]) > 0
       [] p = 3 -> dayNumber(text[i]) > 0 /\ text[i + 1] \in FullMonths
       [] p = 4 -> dayNumber(text[i]) > 0 /\ text[i + 1] \in ShortMonths}

DateMatches(text) == UNION {PatternMatches(text, p) : p \in 1..4}

\* for (const pattern of datePatterns): the first pattern that matches, at
\* its leftmost match
FirstDateMatch(text) ==
  LET p == CHOOSE q \in 1..4 : /\ PatternMatches(text, q) # {}
                               /\ \A r \in 1..(q - 1) : PatternMatches(text, r) = {}
  IN  CHOOSE i \in PatternMatches(text, p) : \A j \in PatternMatches(text, p) : i <= j

\* the weekday loop: Object.entries(weekdays) in insertion order, the first
\* name the text includes
MatchedWeekdays(text) == {i \in 1..7 : Includes(text, weekdays[i])}
FirstWeekdayEntry(text) == CHOOSE i \in MatchedWeekdays(text) :
                             \A j \in MatchedWeekdays(text) : i <= j

\* lines 106-136, for the weekday with index dayIndex
ResolveWeekdayISO(dayIndex, t, offset) ==
  LET currentDay == getDay(t, offset)
      diff == dayIndex - currentDay
      daysUntilTarget == IF diff < 0 THEN diff + 7 ELSE diff
      targetDate == SetDatePlus(t, daysUntilTarget)
  IN  ISODatePart(targetDate)

\* lines 78-104: the explicit date, current year
ResolveExplicitDate(text, t, offset) ==
  LET i == FirstDateMatch(text)
      monthFirst == monthNames(text[i]) > 0
      month == IF monthFirst THEN monthNames(text[i]) ELSE monthNames(text[i + 1])
      day == IF monthFirst THEN dayNumber(text[i + 1]) ELSE dayNumber(text[i])
      currentYear == LocalCivil(t, offset)[1]
      targetDate == NewLocalDate(currentYear, month, day, 0, 0, offset)
  IN  ISODatePart(targetDate)

\* parseWeekdayInTranscript(transcript): JStr(<<y, m, d>>) or Absent (null)
parseWeekdayInTranscript(text, t, offset) ==
  IF DateMatches(text) # {} THEN JStr(ResolveExplicitDate(text, t, offset))
  ELSE IF MatchedWeekdays(text) # {}
       THEN JStr(ResolveWeekdayISO(FirstWeekdayEntry(text) - 1, t, offset))
       ELSE Absent

\* Number.NaN, as the minutes of a time string or a component of a date
NaN == 0 - 1

\* n || 0, isNaN(n) ? 0 : n
OrZero(n) == IF n = NaN THEN 0 ELSE n

\* parseInt of a token of digits, NaN for any other token
parseInt(tok) ==
  CASE tok = "1" -> 1 [] tok = "2" -> 2 [] tok = "5" -> 5 [] tok = "8" -> 8
    [] tok = "12" -> 12 [] tok = "15" -> 15 [] tok = "18" -> 18
    [] tok = "30" -> 30 [] tok = "31" -> 31 [] tok = "45" -> 45
    [] OTHER -> NaN

\* a clock token: <<hours, minutes, period, colon>>, period "" when the token
\* carries none, colon TRUE for H:MM; <<>> for any other token
ClockToken(tok) ==
  CASE tok = "2pm"    -> <<2, 0, "pm", FALSE>>
    [] tok = "6pm"    -> <<6, 0, "pm", FALSE>>
    [] tok = "8am"    -> <<8, 0, "am", FALSE>>
    [] tok = "12am"   -> <<12, 0, "am", FALSE>>
    [] tok = "12pm"   -> <<12, 0, "pm", FALSE>>
    [] tok = "8:30am" -> <<8, 30, "am", TRUE>>
    [] tok = "2:15pm" -> <<2, 15, "pm", TRUE>>
    [] tok = "8:30"   -> <<8, 30, "", TRUE>>
    [] tok = "2:15"   -> <<2, 15, "", TRUE>>
    [] parseInt(tok) # NaN /\ parseInt(tok) < 100 -> <<parseInt(tok), 0, "", FALSE>>
    [] OTHER -> <<>>

\* timePatterns[p] at position i: <<hours, match[2] is the minutes, minutes,
\* period>> or <<>>.  Pattern 1 and 3 are H:MM am|pm, pattern 2 and 4 H am|pm
\* (which also matches the MM am|pm tail of an H:MM am|pm)
TimePatternAt(text, p, i) ==
  LET c == ClockToken(text[i])
      period == IF c # <<>> /\ c[3] # "" THEN c[3]
                ELSE IF i < Len(text) /\ text[i + 1] \in {"am", "pm"} /\ p \in {1, 2}
                     THEN text[i + 1] ELSE ""
  IN  IF c = <<>> \/ period = "" THEN <<>>
      ELSE IF p \in {1, 3} THEN (IF c[4] THEN <<c[1], c[2], period>> ELSE <<>>)
      ELSE IF c[4] THEN <<c[2], NaN, period>> ELSE <<c[1], NaN, period>>

TimePatternMatches(text, p) == {i \in 1..Len(text) : TimePatternAt(text, p, i) # <<>>}

\* lines 172-181: to 24 hours, formatted HH:mm
To24h(m) ==
  LET hours == IF m[3] = "pm" /\ m[1] # 12 THEN m[1] + 12
               ELSE IF m[3] = "am" /\ m[1] = 12 THEN 0 ELSE m[1]
  IN  <<hours, m[2]>>

\* parseTimeInTranscript(transcript): JStr(<<HH, mm>>) or Absent (null); with
\* pattern 2 and 4 match[2] is the am/pm marker, so minutes = parseInt("pm")
parseTimeInTranscript(text) ==
  IF \A p \in 1..4 : TimePatternMatches(text, p) = {} THEN Absent
  ELSE LET p == CHOOSE q \in 1..4 : /\ TimePatternMatches(text, q) # {}
                                   /\ \A r \in 1..(q - 1) : TimePatternMatches(text, r) = {}
           i == CHOOSE j \in TimePatternMatches(text, p) :
                  \A l \in TimePatternMatches(text, p) : j <= l
       IN  JStr(To24h(TimePatternAt(text, p, i)))

\* Array.prototype.sort((a, b) => b - a)
RECURSIVE SortDesc(_)
SortDesc(q) ==
  IF q = <<>> THEN <<>>
  ELSE LET i == CHOOSE j \in 1..Len(q) : \A l \in 1..Len(q) : q[j] >= q[l]
       IN  <<q[i]>> \o SortDesc(SubSeq(q, 1, i - 1) \o SubSeq(q, i + 1, Len(q)))

\* Array.from(new Set(q)): the values of q in order of first occurrence
RECURSIVE Dedup(_)
Dedup(q) ==
  IF q = <<>> THEN <<>>
  ELSE LET front == Dedup(SubSeq(q, 1, Len(q) - 1))
           last == q[Len(q)]
       IN  IF \E i \in 1..Len(front) : front[i] = last THEN front
           ELSE Append(front, last)

\* the offsets pushed for the matches that start at token i, in push order
\* within one scan
MinuteAt(text, i) ==
  IF i < Len(text) /\ parseInt(text[i]) # NaN /\ text[i + 1] \in {"minute", "minutes", "min"}
  THEN <<parseInt(text[i])>> ELSE <<>>
HourAt(text, i) ==
  IF i < Len(text) /\ text[i + 1] \in {"hour", "hours", "hr", "hrs"}
  THEN IF text[i] \in {"an", "a"} THEN <<60>>
       ELSE IF parseInt(text[i]) # NaN /\ parseInt(text[i]) # 0
            THEN <<parseInt(text[i]) * 60>> ELSE <<>>
  ELSE <<>>
ListMinuteAt(text, i) ==
  IF i < Len(text) /\ parseInt(text[i]) # NaN /\ text[i + 1] \in {"minutes", "min"}
  THEN <<parseInt(text[i])>> ELSE <<>>

RECURSIVE ScanMinutes(_, _)
ScanMinutes(text, i) ==
  IF i > Len(text) THEN <<>> ELSE MinuteAt(text, i) \o ScanMinutes(text, i + 1)
RECURSIVE ScanHours(_, _)
ScanHours(text, i) ==
  IF i > Len(text) THEN <<>> ELSE HourAt(text, i) \o ScanHours(text, i + 1)
RECURSIVE ScanListMinutes(_, _)
ScanListMinutes(text, i) ==
  IF i > Len(text) THEN <<>> ELSE ListMinuteAt(text, i) \o ScanListMinutes(text, i + 1)

HasPhrase(text, phrase) ==
  \E i \in 1..(Len(text) - Len(phrase) + 1) :
    SubSeq(text, i, i + Len(phrase) - 1) = phrase

\* the offsets of the minute phrases alone
extractMinuteOffsets(text) == SortDesc(Dedup(ScanMinutes(text, 1)))

\* extractReminderOffsets(text): lines 19-55
extractReminderOffsets(text) ==
  LET mins == ScanMinutes(text, 1) \o ScanHours(text, 1)
              \o (IF HasPhrase(text, <<"half", "an", "hour">>) THEN <<30>> ELSE <<>>)
              \o (IF HasPhrase(text, <<"quarter", "of", "an", "hour">>)
                     \/ HasPhrase(text, <<"quarter", "hour">>) THEN <<15>> ELSE <<>>)
              \o ScanListMinutes(text, 1)
  IN  SortDesc(Dedup(mins))

\* the fallback title: command words, clock times and weekday names removed
\* (lines 287-293, 396-397, 416-417); a bare am/pm after a number goes with it
RECURSIVE StripTitle(_, _)
StripTitle(text, i) ==
  IF i > Len(text) THEN <<>>
  ELSE LET c == ClockToken(text[i])
           clockWithPeriod == c # <<>> /\ c[3] # ""
           clockThenPeriod == c # <<>> /\ c[3] = "" /\ i < Len(text)
                              /\ text[i + 1] \in {"am", "pm"}
       IN  IF clockThenPeriod THEN StripTitle(text, i + 2)
           ELSE IF clockWithPeriod
                   \/ text[i] \in {"schedule", "appointment", "meeting", "event", "for", "at"}
                   \/ \E d \in 1..7 : text[i] = weekdays[d]
                THEN StripTitle(text, i + 1)
                ELSE <<text[i]>> \o StripTitle(text, i + 1)

cleanTitle(text) ==
  IF StripTitle(text, 1) = <<>> THEN <<"Appointment">> ELSE StripTitle(text, 1)

----------------------------------------------------------------------------
(* Utterance splitter and fragment normalizer: parseMultipleCommands *)

\* separators, in the order tried; a "," token is written right after the
\* word before it, every other token has a space on both sides
separators == << <<",", "and">>, <<"and", "then">>, <<"also">>, <<"plus">>,
                 <<"and">>, <<",">>, <<"&">>, <<"then">> >>

\* the split that never finds its separator
SplitOnNever(part, sep, i, start) == <<part>>

\* part.split(new RegExp(separator, 'gi')): a match needs a token before it
\* in the current piece and a token after it
RECURSIVE SplitOn(_, _, _, _)
SplitOn(part, sep, i, start) ==
  IF i > Len(part) THEN <<SubSeq(part, start, Len(part))>>
  ELSE IF /\ i > start
          /\ i + Len(sep) - 1 < Len(part)
          /\ SubSeq(part, i, i + Len(sep) - 1) = sep
       THEN <<SubSeq(part, start, i - 1)>>
              \o SplitOn(part, sep, i + Len(sep), i + Len(sep))
       ELSE SplitOn(part, sep, i + 1, start)

RECURSIVE SplitAllOn(_, _)
SplitAllOn(parts, sep) ==
  IF parts = <<>> THEN <<>>
  ELSE SplitOn(Head(parts), sep, 1, 1) \o SplitAllOn(Tail(parts), sep)

\* stage 1: for (const separator of separators)
RECURSIVE SplitSeparators(_, _)
SplitSeparators(parts, n) ==
  IF n = 0 THEN parts
  ELSE SplitAllOn(SplitSeparators(parts, n - 1), separators[n])

\* a token whose last character is '.', '!' or '?'
EndsSentence(tok) == tok \in {"p.m.", "a.m.", "mom.", "friday.", "2pm."}
\* a token whose first character is a letter
StartsWithLetter(tok) ==
  /\ ClockToken(tok) = <<>>
  /\ tok \notin {",", "&", "[usertimezone]"}

\* stage 2: part.split(/(?<=[.!?])\s+(?=[A-Za-z])/g)
RECURSIVE SplitSentence(_, _, _)
SplitSentence(part, i, start) ==
  IF i >= Len(part) THEN <<SubSeq(part, start, Len(part))>>
  ELSE IF EndsSentence(part[i]) /\ StartsWithLetter(part[i + 1])
       THEN <<SubSeq(part, start, i)>> \o SplitSentence(part, i + 1, i + 1)
       ELSE SplitSentence(part, i + 1, start)

RECURSIVE SplitAllSentences(_)
SplitAllSentences(parts) ==
  IF parts = <<>> THEN <<>>
  ELSE SplitSentence(Head(parts), 1, 1) \o SplitAllSentences(Tail(parts))

EventNouns == {"appointment", "meeting", "event"}
AnotherAt(part, i) ==
  i < Len(part) /\ part[i] = "another" /\ part[i + 1] \in EventNouns

\* stage 3: part.split(/\band\s+schedule\s+(?=another\s+(appointment|meeting|event)\b)/gi);
\* split() also returns what the group captured
RECURSIVE SplitAndSchedule(_, _, _)
SplitAndSchedule(part, i, start) ==
  IF i > Len(part) THEN <<SubSeq(part, start, Len(part))>>
  ELSE IF /\ i + 2 <= Len(part) /\ part[i] = "and" /\ part[i + 1] = "schedule"
          /\ AnotherAt(part, i + 2)
       THEN <<SubSeq(part, start, i - 1), <<part[i + 3]>> >>
              \o SplitAndSchedule(part, i + 2, i + 2)
       ELSE SplitAndSchedule(part, i + 1, start)

RECURSIVE SplitAllAndSchedule(_)
SplitAllAndSchedule(parts) ==
  IF parts = <<>> THEN <<>>
  ELSE SplitAndSchedule(Head(parts), 1, 1) \o SplitAllAndSchedule(Tail(parts))

\* stage 4: part.split(/(?=\banother\s+(appointment|meeting|event)\b)/gi): an
\* empty match splits only after the start of the current piece
RECURSIVE SplitAnother(_, _, _)
SplitAnother(part, i, start) ==
  IF i > Len(part) THEN <<SubSeq(part, start, Len(part))>>
  ELSE IF i > start /\ AnotherAt(part, i)
       THEN <<SubSeq(part, start, i - 1), <<part[i + 1]>> >>
              \o SplitAnother(part, i + 1, i)
       ELSE SplitAnother(part, i + 1, start)

RECURSIVE SplitAllAnother(_)
SplitAllAnother(parts) ==
  IF parts = <<>> THEN <<>>
  ELSE SplitAnother(Head(parts), 1, 1) \o SplitAllAnother(Tail(parts))

\* stage 5: the connector-only fragments dropped
IsConnectorOnly(part) ==
  \/ part = <<>>
  \/ part \in {<<"and">>, <<"then">>, <<"schedule">>, <<"and", "schedule">>}
  \/ part \in {<<"schedule", x>> : x \in {"it", "this", "that"}}
  \/ part \in {<<"and", "schedule", x>> : x \in {"it", "this", "that"}}

RECURSIVE Cleanup(_)
Cleanup(parts) ==
  IF parts = <<>> THEN <<>>
  ELSE (IF IsConnectorOnly(Head(parts)) THEN <<>> ELSE <<Head(parts)>>)
         \o Cleanup(Tail(parts))

\* splitIntoParts(text): lines 451-512
splitIntoParts(text) ==
  Cleanup(SplitAllAnother(SplitAllAndSchedule(SplitAllSentences(
    SplitSeparators(<<text>>, Len(separators))))))

\* lines 529-530: the first noun of the transcript, <<>> when there is none
BaseNouns == {"appointment", "meeting", "reminder", "note", "task", "event"}
baseNoun(text) ==
  IF \E i \in 1..Len(text) : text[i] \in BaseNouns
  THEN LET i == CHOOSE j \in 1..Len(text) :
                  text[j] \in BaseNouns /\ \A l \in 1..(j - 1) : text[l] \notin BaseNouns
       IN  <<text[i]>>
  ELSE <<>>

CommandWords == {"add", "create", "make", "schedule", "remind", "note", "delete",
                 "remove", "cancel", "complete"}

\* /(\b\d{1,2}(:\d{2})?\s*(am|pm)\b|\bat\s+\d{1,2}(:\d{2})?\b)/
hasTime(text) ==
  \E i \in 1..Len(text) :
    LET c == ClockToken(text[i])
    IN  /\ c # <<>>
        /\ \/ c[3] # ""
           \/ i < Len(text) /\ text[i + 1] \in {"am", "pm"}
           \/ i > 1 /\ text[i - 1] = "at"

\* /^(another|on\s+\w+day|on\s+\w+|at\s+\d|tomorrow|today|next\s+\w+)/
startsContextual(text) ==
  /\ Len(text) > 0
  /\ \/ text[1] \in {"another", "tomorrow", "today"}
     \/ Len(text) > 1 /\ text[1] \in {"on", "next"} /\ StartsWithLetter(text[2])
     \/ Len(text) > 1 /\ text[1] = "at" /\ ClockToken(text[2]) # <<>>

\* lines 533-555: one fragment made a self-contained command
normalizePart(part, noun) ==
  LET hasCommandWord == \E i \in 1..Len(part) : part[i] \in CommandWords
      withNoun == IF startsContextual(part) /\ noun # <<>>
                  THEN noun \o (IF part[1] = "another" THEN Tail(part) ELSE part)
                  ELSE part
  IN  IF hasCommandWord THEN withNoun
      ELSE IF hasTime(part) /\ noun # <<>> /\ noun[1] \in EventNouns
           THEN <<"schedule">> \o withNoun
           ELSE <<"add">> \o withNoun

normalizedParts(text) ==
  LET parts == splitIntoParts(text)
  IN  [i \in 1..Len(parts) |-> normalizePart(parts[i], baseNoun(text))]

----------------------------------------------------------------------------
(* LLM command resolver: parseVoiceCommand *)

JBool(b) == [k |-> "bool", v |-> <<b>>]
JList(q) == [k |-> "list", v |-> q]

\* a parsed command: text, and the fields of the JSON object spread over it;
\* extractedData says whether the object has that member at all
SCmd(text, intent, confidence, ed, title, date, time, dueDate, error) ==
  [text |-> text, intent |-> intent, confidence |-> confidence,
   extractedData |-> ed, title |-> title, date |-> date, time |-> time,
   dueDate |-> dueDate, reminders |-> Absent, applyToLastScheduled |-> Absent,
   error |-> error]

\* { text: transcript, ...null }
TextOnly(text) ==
  SCmd(text, Absent, Absent, FALSE, Absent, Absent, Absent, Absent, FALSE)

\* lines 283-301, 394-398, 414-418: the heuristic fallback command
FallbackCommand(text, t, offset) ==
  SCmd(text, JStr(<<"schedule">>), JNum(50), TRUE, JStr(cleanTitle(text)),
       parseWeekdayInTranscript(text, t, offset), parseTimeInTranscript(text), Absent, TRUE)

\* a JSON object the model may answer with
LlmObject(intent, confidence, ed, title, date, time, dueDate) ==
  SCmd(<<>>, intent, confidence, ed, title, date, time, dueDate, FALSE)

LlmDate == JStr(<<2025, 11, 14>>)
LlmTime == JStr(<<14, 0>>)
LlmDue == JStr(<<NewLocalDate(2025, 11, 14, 14, 0, 0)>>)
LlmTitle == JStr(<<"dentist">>)
Sched == JStr(<<"schedule">>)

LlmObjects ==
  { LlmObject(Sched, JNum(90), TRUE, LlmTitle, Absent, LlmTime, Absent),
    LlmObject(Sched, JNum(90), TRUE, LlmTitle, LlmDate, LlmTime, Absent),
    LlmObject(JStr(<<"task">>), JNum(80), TRUE, LlmTitle, Absent, Absent, Absent),
    LlmObject(Sched, JNum(90), TRUE, LlmTitle, Absent, Absent, LlmDue),
    LlmObject(JStr(<<"banana">>), JNum(700), FALSE, Absent, Absent, Absent, Absent),
    LlmObject(Sched, JNum(90), TRUE, LlmTitle, JNum(20251114), LlmTime, Absent),
    LlmObject(Sched, JNum(90), TRUE, LlmTitle, Absent, JNum(14), Absent) }

\* what one chat.completions.create call ends with: a rejected promise, text
\* that is no JSON, or text holding a JSON object
Throws == [kind |-> "throw", obj |-> TextOnly(<<>>)]
Garbage == [kind |-> "garbage", obj |-> TextOnly(<<>>)]
Responses == {Throws, Garbage} \cup {[kind |-> "object", obj |-> o] : o \in LlmObjects}

\* { text: transcript, ...parsedResponse }
SpreadOver(text, obj) == [obj EXCEPT !.text = text]

\* lines 402-409: the date backfilled from the transcript
Backfill(text, obj, t, offset) ==
  LET withEd == [obj EXCEPT !.extractedData = TRUE]
      weekdayDate == parseWeekdayInTranscript(text, t, offset)
  IN  IF ~Truthy(obj.date) /\ ~Truthy(obj.dueDate) /\ Truthy(weekdayDate)
      THEN SpreadOver(text, [withEd EXCEPT !.date = weekdayDate])
      ELSE SpreadOver(text, withEd)

\* lines 345-352 (the route passes no options argument)
useRaw(env) == env # "0"

\* a parseVoiceCommand invocation: stage is the request it awaits ("raw1",
\* "raw2" of callChatModelRaw, "rich1", "rich2" of the rich prompt) or "done";
\* seen the kinds of the responses received, last the latest response
NewCall(text, key, env, t, offset) ==
  IF ~key
  THEN [text |-> text, stage |-> "done", out |-> FallbackCommand(text, t, offset),
        seen |-> <<>>, last |-> Throws]
  ELSE [text |-> text, stage |-> IF useRaw(env) THEN "raw1" ELSE "rich1",
        out |-> TextOnly(text), seen |-> <<>>, last |-> Throws]

Returns(call, r, cmd) ==
  [call EXCEPT !.stage = "done", !.out = cmd, !.seen = Append(call.seen, r.kind),
               !.last = r]
Awaits(call, r, stage) ==
  [call EXCEPT !.stage = stage, !.seen = Append(call.seen, r.kind), !.last = r]

\* lines 315-336 and 355-358: callChatModelRaw and its use
RawStep(call, r, t, offset) ==
  CASE r.kind = "throw"   -> Returns(call, r, FallbackCommand(call.text, t, offset))
    [] r.kind = "object"  -> Returns(call, r, SpreadOver(call.text, r.obj))
    [] r.kind = "garbage" -> Awaits(call, r, IF call.stage = "raw1" THEN "raw2" ELSE "rich1")

\* lines 372-409: the rich prompt, its retry and the backfill
RichStep(call, r, t, offset) ==
  CASE r.kind = "throw"   -> Returns(call, r, FallbackCommand(call.text, t, offset))
    [] r.kind = "object"  -> Returns(call, r, Backfill(call.text, r.obj, t, offset))
    [] r.kind = "garbage" ->
         IF call.stage = "rich1" THEN Awaits(call, r, "rich2")
         ELSE Returns(call, r, TextOnly(call.text))

\* parseVoiceCommand resumed with the response r of the request it awaits
parseVoiceCommand(call, r, t, offset) ==
  IF call.stage \in {"raw1", "raw2"} THEN RawStep(call, r, t, offset)
  ELSE RichStep(call, r, t, offset)

----------------------------------------------------------------------------
(* Batch post-processing: parseMultipleCommands, lines 571-664 *)

\* a token in which the regular expression finds "before" / "beforehand"
RefersToLast(text) ==
  \/ \E i \in 1..Len(text) : text[i] \in {"before", "beforehand"}
  \/ \E i \in 1..(Len(text) - 1) :
       \/ text[i] = "for" /\ text[i + 1] \in {"this", "that"}
       \/ text[i] = "this" /\ text[i + 1] \in {"appointment", "meeting"}
       \/ text[i] = "remind" /\ text[i + 1] = "me"

\* lines 572-590: a reminder phrase makes the command an apply-to-last one
LinkReminders(cmd) ==
  LET offsets == extractReminderOffsets(cmd.text)
  IN  IF Len(offsets) > 0 /\ RefersToLast(cmd.text)
      THEN [cmd EXCEPT !.extractedData = TRUE, !.reminders = JList(offsets),
                       !.applyToLastScheduled = JBool(TRUE)]
      ELSE cmd

\* lines 593-608: "call it X", "title it X", "name it X"
TitleChangeAt(text) ==
  {i \in 1..(Len(text) - 2) : text[i] \in {"call", "title", "name"} /\ text[i + 1] = "it"}
LinkTitle(cmd) ==
  IF TitleChangeAt(cmd.text) = {} THEN cmd
  ELSE LET i == CHOOSE j \in TitleChangeAt(cmd.text) :
                  \A l \in TitleChangeAt(cmd.text) : j <= l
       IN  [cmd EXCEPT !.extractedData = TRUE,
                       !.title = JStr(SubSeq(cmd.text, i + 2, Len(cmd.text))),
                       !.applyToLastScheduled = JBool(TRUE)]

\* lines 611-620: the base date of the batch, <<>> (null) or <<instant>> of
\* the local midnight
baseDate(text, t, offset) ==
  LET ymd == LocalCivil(t, offset)
  IN  IF Includes(text, "today") \/ Includes(text, "tonight")
      THEN <<NewLocalDate(ymd[1], ymd[2], ymd[3], 0, 0, offset)>>
      ELSE IF Includes(text, "tomorrow")
           THEN <<NewLocalDate(ymd[1], ymd[2], ymd[3] + 1, 0, 0, offset)>>
           ELSE <<>>

\* /(pm|p\.m\.|tonight|evening)/i.test(transcript)
pmHint(text) ==
  \E i \in 1..Len(text) :
    \/ text[i] \in {"pm", "p.m.", "tonight", "evening"}
    \/ ClockToken(text[i]) # <<>> /\ ClockToken(text[i])[3] = "pm"

\* lines 629-662 for one command; acc = [lastKnownDate, out, threw].  A date
\* or time that is no string has no split method: a TypeError
PropagateDate(acc, cmd, text, t, offset) ==
  LET hasExplicitDate == Truthy(cmd.date) \/ Truthy(cmd.dueDate)
      date1 == IF Truthy(cmd.dueDate) /\ ~Truthy(cmd.date)
               THEN JStr(LocalDateString(cmd.dueDate.v[1], offset)) ELSE cmd.date
      throwsOnDate == Truthy(date1) /\ date1.k # "string"
      last1 == IF Truthy(date1) /\ ~throwsOnDate
               THEN <<NewLocalDate(date1.v[1], date1.v[2], date1.v[3], 0, 0, offset)>>
               ELSE acc.lastKnownDate
      anchor == IF last1 # <<>> THEN last1 ELSE baseDate(text, t, offset)
      composes == ~hasExplicitDate /\ Truthy(cmd.time) /\ anchor # <<>>
      throwsOnTime == composes /\ cmd.time.k # "string"
      hh0 == cmd.time.v[1]
      hh == IF pmHint(text) /\ hh0 # NaN /\ hh0 >= 1 /\ hh0 <= 11 THEN hh0 + 12 ELSE hh0
      composed == anchor[1] + OrZero(hh) * 60 + OrZero(cmd.time.v[2])
      out1 == IF composes /\ ~throwsOnTime
              THEN [cmd EXCEPT !.extractedData = TRUE,
                               !.dueDate = JStr(<<composed>>),
                               !.date = JStr(LocalDateString(anchor[1], offset))]
              ELSE [cmd EXCEPT !.extractedData = TRUE, !.date = date1]
  IN  IF acc.threw \/ throwsOnDate \/ throwsOnTime
      THEN [acc EXCEPT !.threw = TRUE]
      ELSE [lastKnownDate |-> last1, out |-> Append(acc.out, out1), threw |-> FALSE]

RECURSIVE PropagateDates(_, _, _, _, _)
PropagateDates(cmds, n, text, t, offset) ==
  IF n = 0 THEN [lastKnownDate |-> <<>>, out |-> <<>>, threw |-> FALSE]
  ELSE PropagateDate(PropagateDates(cmds, n - 1, text, t, offset),
                     LinkTitle(LinkReminders(cmds[n])), text, t, offset)

\* lines 668-673: what the outer catch returns
UnknownCommand(text) ==
  SCmd(text, JStr(<<"unknown">>), JNum(30), TRUE, JStr(text), Absent, Absent, Absent, FALSE)

\* lines 571-674: the commands returned for the fragment results cmds
postProcess(cmds, text, t, offset) ==
  LET r == PropagateDates(cmds, Len(cmds), text, t, offset)
  IN  IF r.threw THEN <<UnknownCommand(text)>> ELSE r.out

----------------------------------------------------------------------------
(* The clocks and zones the specifications start from *)

\* Sunday 2025-11-02 .. Saturday 2025-11-08, one of each weekday
ClockDays == {DaysFromCivil(2025, 11, 2) + i : i \in 0..6}
\* local clock times: just after midnight, noon, late evening
ClockMinutes == {30, 720, 1410}
\* UTC-5, UTC, UTC+9
Zones == {-300, 0, 540}
\* the instants whose local date and time are in ClockDays x ClockMinutes
Clocks(offset) == {d * MinutesPerDay + m - offset : d \in ClockDays, m \in ClockMinutes}

----------------------------------------------------------------------------
(* The App component: client/src/App.tsx *)

\* lastScheduledTaskId === null
NoId == <<>>

\* Array.from(new Set([...existing, ...offsets]))
MergeSet(existing, offsets) == Dedup(existing \o offsets)

\* Array.isArray(x) ? x : []
ArrayOrEmpty(j) == IF j.k = "list" THEN j.v ELSE <<>>

\* a VoiceCommand: text, intent and the fields of extractedData (Absent when
\* extractedData or the field is missing)
Cmd(text, intent, title, date, time, dueDate, reminders, apply) ==
  [text |-> text, intent |-> intent, title |-> title, date |-> date,
   time |-> time, dueDate |-> dueDate, reminders |-> reminders,
   applyToLastScheduled |-> apply]

\* /^(remind|notify)/i.test(cmd.text)
StartsWithRemindOrNotify(text) ==
  Len(text) > 0 /\ text[1] \in {"remind", "reminder", "notify"}

\* the update that renames the target and leaves its reminders alone
ApplyUpdateTitleOnly(t, cmd) ==
  IF Truthy(cmd.title) THEN [t EXCEPT !.title = cmd.title.v] ELSE t

\* lines 88-95 and 99-106: the apply-to-last update of the target task
ApplyUpdate(t, cmd) ==
  LET titled == IF Truthy(cmd.title) THEN [t EXCEPT !.title = cmd.title.v] ELSE t
  IN  IF cmd.reminders.k = "list" /\ Len(cmd.reminders.v) > 0
      THEN [titled EXCEPT !.reminders =
              JList(MergeSet(ArrayOrEmpty(t.reminders), cmd.reminders.v))]
      ELSE titled

\* lines 123-125 and 129-131: the reminder-update of the target task
ReminderUpdate(t, cmd) ==
  [t EXCEPT !.reminders = JList(MergeSet(ArrayOrEmpty(t.reminders), cmd.reminders.v))]

\* lines 156-195: the due date of a new task, composed in the local zone from
\* date/time when either is given, else the dueDate the server sent
ComposeDueDate(cmd, t, offset) ==
  IF Truthy(cmd.date) \/ Truthy(cmd.time)
  THEN LET ymd == IF Truthy(cmd.date) THEN cmd.date.v ELSE LocalCivil(t, offset)
           hm  == IF Truthy(cmd.time) THEN cmd.time.v ELSE <<0, 0>>
       IN  JStr(<<NewLocalDate(ymd[1], ymd[2], ymd[3], OrZero(hm[1]), OrZero(hm[2]),
                               offset)>>)
  ELSE cmd.dueDate

\* lines 142-198: the task made from a command; index is its position among
\* the actionable commands
NewTask(cmd, index, pending, ms, t, offset) ==
  LET merged == MergeSet(ArrayOrEmpty(cmd.reminders), ArrayOrEmpty(pending))
  IN  [id |-> <<ms, index>>,
       title |-> IF Truthy(cmd.title) THEN cmd.title.v ELSE cmd.text,
       reminders |-> IF Len(merged) > 0 THEN JList(merged) ELSE Absent,
       dueDate |-> ComposeDueDate(cmd, t, offset)]

IndexOfId(q, id) ==
  IF \E i \in 1..Len(q) : q[i].id = id
  THEN CHOOSE i \in 1..Len(q) : q[i].id = id /\ \A j \in 1..(i - 1) : q[j].id # id
  ELSE 0

\* prev.map(t => t.id !== id ? t : f(t))
MapTarget(q, id, cmd, asReminder) ==
  [i \in 1..Len(q) |->
     IF q[i].id # id THEN q[i]
     ELSE IF asReminder THEN ReminderUpdate(q[i], cmd) ELSE ApplyUpdate(q[i], cmd)]

\* lines 82-114: a command with applyToLastScheduled
ApplyToLastBranch(acc, cmd) ==
  IF acc.batchLastScheduledId # NoId
  THEN LET idx == IndexOfId(acc.newTasks, acc.batchLastScheduledId)
       IN  IF idx > 0
           THEN [acc EXCEPT !.newTasks[idx] = ApplyUpdate(acc.newTasks[idx], cmd)]
           ELSE [acc EXCEPT !.tasks =
                   MapTarget(acc.tasks, acc.batchLastScheduledId, cmd, FALSE)]
  ELSE IF Truthy(cmd.reminders)
       THEN [acc EXCEPT !.pendingReminders =
               JList(MergeSet(ArrayOrEmpty(acc.pendingReminders), cmd.reminders.v))]
       ELSE acc

\* lines 117-139: a reminder update without applyToLastScheduled
ReminderUpdateBranch(acc, cmd) ==
  IF acc.batchLastScheduledId # NoId
  THEN LET idx == IndexOfId(acc.newTasks, acc.batchLastScheduledId)
       IN  IF idx > 0
           THEN [acc EXCEPT !.newTasks[idx] = ReminderUpdate(acc.newTasks[idx], cmd)]
           ELSE [acc EXCEPT !.tasks =
                   MapTarget(acc.tasks, acc.batchLastScheduledId, cmd, TRUE)]
  ELSE [acc EXCEPT !.pendingReminders =
          JList(MergeSet(ArrayOrEmpty(acc.pendingReminders), cmd.reminders.v))]

\* lines 141-208: a command that becomes a task
NewTaskBranch(acc, cmd, index, pos, ms, t, offset) ==
  LET newTask == NewTask(cmd, index, acc.pendingReminders, ms, t, offset)
      pushed == [acc EXCEPT !.newTasks = Append(acc.newTasks, newTask),
                            !.made = acc.made \cup {[pos |-> pos, id |-> newTask.id]}]
  IN  IF Truthy(newTask.dueDate)
      THEN [pushed EXCEPT !.batchLastScheduledId = newTask.id,
                          !.pendingReminders = Absent]
      ELSE pushed

\* lines 79-209: the body of actionable.forEach for one command
ForEachBody(acc, cmd, index, pos, ms, t, offset) ==
  IF cmd.applyToLastScheduled THEN ApplyToLastBranch(acc, cmd)
  ELSE IF (cmd.intent = "reminder" \/ StartsWithRemindOrNotify(cmd.text))
          /\ Truthy(cmd.reminders)
       THEN ReminderUpdateBranch(acc, cmd)
       ELSE IF cmd.intent \in {"task", "reminder", "note", "schedule"}
            THEN NewTaskBranch(acc, cmd, index, pos, ms, t, offset)
            ELSE acc

\* the batch positions of commands.filter(cmd => keep(cmd.intent === 'findTime'))
RECURSIVE Positions(_, _, _)
Positions(cmds, findTime, from) ==
  IF from > Len(cmds) THEN <<>>
  ELSE (IF (cmds[from].intent = "findTime") = findTime THEN <<from>> ELSE <<>>)
         \o Positions(cmds, findTime, from + 1)

\* actionable.forEach over the first n actionable commands
RECURSIVE ForEach(_, _, _, _, _, _)
ForEach(acc0, cmds, n, ms, t, offset) ==
  IF n = 0 THEN acc0
  ELSE LET pos == Positions(cmds, FALSE, 1)[n]
       IN  ForEachBody(ForEach(acc0, cmds, n - 1, ms, t, offset),
                       cmds[pos], n - 1, pos, ms, t, offset)


\* no parse request under way
SrvIdle ==
  /\ apiKey = TRUE /\ rawEnv = "unset" /\ transcript = <<>> /\ multiple = TRUE
  /\ srvPc = "done" /\ calls = <<>> /\ resolved = <<>> /\ settled = <<>>
  /\ reply = [status |-> 0, data |-> <<>>]
  /\ clientResult = <<>>

\* the hook as constructed: lines 31-37
HookConstructed ==
  /\ recognizing = FALSE /\ isListening = FALSE /\ keepAlive = FALSE
  /\ hookTranscript = <<>> /\ hookConfidence = 0
  /\ debounceTimeout = <<>> /\ onResults = <<>> /\ finals = <<>> /\ events = 0

\* the App component as constructed (mockTasks is empty)
AppConstructed ==
  /\ tasks = <<>>
  /\ lastScheduledTaskId = NoId
  /\ appPc = "idle"
  /\ batch = <<>>
  /\ ftQueue = <<>>
  /\ created = {}
  /\ carriedIn = NoId
  /\ clock = 1
  /\ processed = 0


----------------------------------------------------------------------------
(* SpecApp: the batches App.tsx reconciles *)

\* lines 284-291: the title of a found-time task
FindTimeTitle(cmd) ==
  LET text == cmd.text
      hits == {j \in 2..(Len(text) - 1) :
                 text[j] = "time" /\ \E i \in 1..(j - 1) : text[i] \in {"find", "look"}}
  IN  IF Truthy(cmd.title) THEN cmd.title.v
      ELSE IF hits = {} THEN <<"study">>
      ELSE LET j == CHOOSE h \in hits : \A g \in hits : h <= g
           IN  IF text[j + 1] \in {"for", "to"} /\ j + 1 < Len(text)
               THEN SubSeq(text, j + 2, Len(text))
               ELSE SubSeq(text, j + 1, Len(text))

\* the starts of the slots findBestTimeSlot may return for today
FreeSlotStarts(t, offset) ==
  LET ymd == LocalCivil(t, offset)
  IN  {NewLocalDate(ymd[1], ymd[2], ymd[3], 9, 0, offset)}

\* the commands a batch is drawn from
Txt(t) == JStr(t)
Day1 == JStr(<<2025, 11, 7>>)
Clock2pm == JStr(<<14, 0>>)
Due1 == JStr(<<NewLocalDate(2025, 11, 7, 14, 0, 0)>>)
Commands ==
  { Cmd(<<"schedule", "dentist", "friday", "2pm">>, "schedule",
        Txt(<<"dentist">>), Day1, Clock2pm, Due1, Absent, FALSE),
    Cmd(<<"remind", "me", "about", "the", "review">>, "schedule",
        Absent, Absent, Absent, Due1, Absent, FALSE),
    Cmd(<<"schedule", "standup", "2pm">>, "schedule",
        Txt(<<"standup">>), Absent, Clock2pm, Absent, JList(<<30>>), FALSE),
    Cmd(<<"add", "call", "mom">>, "task",
        Txt(<<"call", "mom">>), Absent, Absent, Absent, Absent, FALSE),
    Cmd(<<"remind", "me", "30", "minutes", "before">>, "reminder",
        Absent, Absent, Absent, Absent, JList(<<30>>), TRUE),
    Cmd(<<"add", "15", "minutes", "and", "an", "hour", "before">>, "task",
        Absent, Absent, Absent, Absent, JList(<<60, 15>>), TRUE),
    Cmd(<<"call", "it", "checkup">>, "unknown",
        Txt(<<"checkup">>), Absent, Absent, Absent, Absent, TRUE),
    Cmd(<<"notify", "me", "an", "hour", "ahead">>, "task",
        Absent, Absent, Absent, Absent, JList(<<60>>), FALSE),
    Cmd(<<"reminder", "friday", "2pm", "15", "minutes", "before">>, "reminder",
        Txt(<<"pickup">>), Day1, Clock2pm, Absent, JList(<<15>>), FALSE),
    Cmd(<<"find", "time", "for", "study", "30", "minutes", "before", "this", "meeting">>,
        "findTime", Absent, Absent, Absent, Absent, JList(<<30>>), TRUE),
    Cmd(<<"find", "time", "to", "read">>, "findTime",
        Absent, Absent, Absent, Absent, Absent, FALSE),
    Cmd(<<"delete", "groceries">>, "delete",
        Txt(<<"groceries">>), Absent, Absent, Absent, Absent, FALSE),
    \* a scheduling fragment with a reminder phrase, as lines 572-590 of
    \* parseMultipleCommands return it
    Cmd(<<"schedule", "dentist", "friday", "2pm", "30", "minutes", "before">>, "schedule",
        Txt(<<"dentist">>), Day1, Clock2pm, Due1, JList(<<30>>), TRUE) }

\* the number of commands App handles in one behaviour
MaxCommands == 3

Batches(n) == UNION {[1..l -> Commands] : l \in 1..n}

\* handleVoiceCommand(command): lines 66-214, up to the first await
HandleVoiceCommand ==
  /\ appPc = "idle"
  /\ \E cmds \in Batches(MaxCommands - processed) :
       LET acc0 == [newTasks |-> <<>>, batchLastScheduledId |-> lastScheduledTaskId,
                    pendingReminders |-> Absent, tasks |-> tasks, made |-> {}]
           acc == ForEach(acc0, cmds, Len(Positions(cmds, FALSE, 1)), clock, now, tz)
           findTimeCommands == Positions(cmds, TRUE, 1)
       IN  /\ tasks' = IF Len(acc.newTasks) > 0 THEN acc.newTasks \o acc.tasks
                       ELSE acc.tasks
           /\ lastScheduledTaskId' =
                IF Len(acc.newTasks) > 0 /\ acc.batchLastScheduledId # NoId
                THEN acc.batchLastScheduledId ELSE lastScheduledTaskId
           /\ ftQueue' = findTimeCommands
           /\ appPc' = IF findTimeCommands = <<>> THEN "idle" ELSE "findTime"
           /\ batch' = cmds
           /\ created' = acc.made
           /\ carriedIn' = lastScheduledTaskId
           /\ processed' = processed + Len(cmds)
  /\ clock' = clock + 1
  /\ UNCHANGED <<speechVars, now, tz, wkVars, srvVars>>

\* handleFindTimeCommand(ft): lines 225-313, for the next findTime command of
\* the batch; found is the slot the calendar helpers return, or FALSE-like
\* "none" (no access token, no free slot, or a failed fetch)
HandleFindTimeCommand ==
  /\ appPc = "findTime"
  /\ LET pos == Head(ftQueue)
         command == batch[pos]
     IN  \/ /\ UNCHANGED <<tasks, created>>
         \/ \E slot \in FreeSlotStarts(now, tz) :
              LET newTask == [id |-> <<clock>>, title |-> FindTimeTitle(command),
                              reminders |-> Absent, dueDate |-> JStr(<<slot>>)]
              IN  /\ tasks' = <<newTask>> \o tasks
                  /\ created' = created \cup {[pos |-> pos, id |-> newTask.id]}
  /\ ftQueue' = Tail(ftQueue)
  /\ appPc' = IF Tail(ftQueue) = <<>> THEN "idle" ELSE "findTime"
  /\ clock' = clock + 1
  /\ UNCHANGED <<speechVars, now, tz, wkVars, srvVars, lastScheduledTaskId, batch, carriedIn,
                 processed>>

\* the client machine of SpecApp: Friday 2025-11-07, 12:00, UTC-5
AppInit ==
  /\ AppConstructed /\ SrvIdle /\ HookConstructed
  /\ tz = -300
  /\ now = NewLocalDate(2025, 11, 7, 12, 0, tz)
  /\ wkText = <<>> /\ wkResult = Absent /\ wkPc = "done"

\* handleDeleteTask(id): lines 324-326, for a task of the list, between two
\* voice batches; lastScheduledTaskId is not touched.  The record of the last
\* batch (batch, created, carriedIn) is dropped.
HandleDeleteTask ==
  /\ appPc = "idle"
  /\ \E i \in 1..Len(tasks) :
       tasks' = SubSeq(tasks, 1, i - 1) \o SubSeq(tasks, i + 1, Len(tasks))
  /\ batch' = <<>> /\ created' = {} /\ carriedIn' = NoId
  /\ UNCHANGED <<speechVars, now, tz, wkVars, srvVars, lastScheduledTaskId, appPc, ftQueue,
                 clock, processed>>

\* handleUpdateTask(id, updates): lines 328-334, with the update the task
\* item makes, { title } (TaskItem.tsx line 26)
HandleUpdateTask ==
  /\ appPc = "idle"
  /\ \E i \in 1..Len(tasks) :
       tasks' = [tasks EXCEPT ![i].title = <<"edited">>]
  /\ batch' = <<>> /\ created' = {} /\ carriedIn' = NoId
  /\ UNCHANGED <<speechVars, now, tz, wkVars, srvVars, lastScheduledTaskId, appPc, ftQueue,
                 clock, processed>>

AppNext ==
  \/ HandleVoiceCommand \/ HandleFindTimeCommand
  \/ HandleDeleteTask \/ HandleUpdateTask

----------------------------------------------------------------------------
(* SpecParse: one parse request *)

\* the transcripts the recorder may finalize
Transcripts ==
  { <<>>,
    <<"schedule", "dentist", "friday", "at", "2pm">>,
    <<"dentist", "tomorrow", "at", "2pm">>,
    <<"add", "call", "mom", "tomorrow", "and", "schedule", "dentist", "at", "2pm">>,
    <<"schedule", "dentist", "monday", "at", "8:30am", "and", "remind", "me", "30",
      "minutes", "before">>,
    <<"add", "call", "mom", "tomorrow", "at", "2:15pm", "and", "schedule", "standup",
      "at", "8:30am">> }

\* lines 103-104 of routes/ai.js: the recorder always sends its time zone
tzHint == <<"[usertimezone]">>
ServerText == transcript \o tzHint

\* parseWithServerAI: the request is sent (lines 13-24)
ClientSend ==
  /\ srvPc = "send"
  /\ srvPc' = "route"
  /\ UNCHANGED <<speechVars, now, tz, wkVars, appVars, apiKey, rawEnv, transcript, multiple,
                 calls, resolved, reply, clientResult, settled>>

\* the commands parseWithServerAI's catch returns (lines 32-41)
ClientFallback == <<UnknownCommand(transcript)>>

\* fetch rejects: the server cannot be reached
ClientSendFails ==
  /\ srvPc = "send"
  /\ srvPc' = "done"
  /\ clientResult' = ClientFallback
  /\ UNCHANGED <<speechVars, now, tz, wkVars, appVars, apiKey, rawEnv, transcript, multiple,
                 calls, resolved, reply, settled>>

\* router.post('/parse'): lines 84-111 of routes/ai.js, up to the first LLM
\* request; in parseMultipleCommands parseCommandsArray is not defined, the
\* ReferenceError is caught (lines 430-448) and parseVoiceCommand(transcript)
\* is awaited (line 518)
RouteParse ==
  /\ srvPc = "route"
  /\ IF transcript = <<>>
     THEN /\ reply' = [status |-> 400, data |-> <<>>]
          /\ srvPc' = "reply"
          /\ UNCHANGED calls
     ELSE IF ~apiKey
          THEN /\ reply' = [status |-> 503, data |-> <<>>]
               /\ srvPc' = "reply"
               /\ UNCHANGED calls
          ELSE /\ calls' = <<NewCall(ServerText, apiKey, rawEnv, now, tz)>>
               /\ srvPc' = IF multiple THEN "whole" ELSE "single"
               /\ UNCHANGED reply
  /\ UNCHANGED <<speechVars, now, tz, wkVars, appVars, apiKey, rawEnv, transcript, multiple,
                 resolved, settled, clientResult>>

\* one chat.completions.create call of one parseVoiceCommand settles
LlmRespond ==
  /\ srvPc \in {"whole", "single", "parts"}
  /\ \E c \in 1..Len(calls) : \E r \in Responses :
       LET call == parseVoiceCommand(calls[c], r, now, tz)
       IN  /\ calls[c].stage # "done"
           /\ calls' = [calls EXCEPT ![c] = call]
           /\ settled' = IF call.stage = "done" THEN Append(settled, c) ELSE settled
  /\ UNCHANGED <<speechVars, now, tz, wkVars, appVars, apiKey, rawEnv, transcript, multiple,
                 srvPc, resolved, reply, clientResult>>

\* the route's else branch: parseVoiceCommand(transcript) returned (line 110)
SingleReturns ==
  /\ srvPc = "single" /\ calls[1].stage = "done"
  /\ resolved' = <<calls[1].out>>
  /\ reply' = [status |-> 200, data |-> <<calls[1].out>>]
  /\ srvPc' = "reply"
  /\ UNCHANGED <<speechVars, now, tz, wkVars, appVars, apiKey, rawEnv, transcript, multiple,
                 calls, clientResult, settled>>

\* parseMultipleCommands, lines 518-569: the whole-transcript call returned;
\* one part returns its response, several parts are resolved concurrently
\* (response is not read again then, and calls holds the fragment calls only)
WholeReturns ==
  /\ srvPc = "whole" /\ calls[1].stage = "done"
  /\ LET parts == normalizedParts(ServerText)
     IN  IF Len(parts) <= 1
         THEN /\ resolved' = <<calls[1].out>>
              /\ reply' = [status |-> 200, data |-> <<calls[1].out>>]
              /\ srvPc' = "reply"
              /\ UNCHANGED <<calls, settled>>
         ELSE /\ calls' = [i \in 1..Len(parts) |->
                             NewCall(parts[i], apiKey, rawEnv, now, tz)]
              /\ settled' = <<>>
              /\ srvPc' = "parts"
              /\ UNCHANGED <<resolved, reply>>
  /\ UNCHANGED <<speechVars, now, tz, wkVars, appVars, apiKey, rawEnv, transcript, multiple,
                 clientResult>>

\* the variant that post-processes the results in the order the calls returned
PartsReturnInCompletionOrder ==
  /\ srvPc = "parts"
  /\ \A c \in 1..Len(calls) : calls[c].stage = "done"
  /\ LET cmds == [i \in 1..Len(calls) |-> calls[settled[i]].out]
     IN  /\ resolved' = cmds
         /\ reply' = [status |-> 200, data |-> postProcess(cmds, ServerText, now, tz)]
  /\ srvPc' = "reply"
  /\ UNCHANGED <<speechVars, now, tz, wkVars, appVars, apiKey, rawEnv, transcript, multiple,
                 calls, clientResult, settled>>

\* parseMultipleCommands, lines 571-674: Promise.all resolved, the results are
\* post-processed in fragment order
PartsReturn ==
  /\ srvPc = "parts"
  /\ \A c \in 1..Len(calls) : calls[c].stage = "done"
  /\ LET cmds == [i \in 1..Len(calls) |-> calls[i].out]
     IN  /\ resolved' = cmds
         /\ reply' = [status |-> 200, data |-> postProcess(cmds, ServerText, now, tz)]
  /\ srvPc' = "reply"
  /\ UNCHANGED <<speechVars, now, tz, wkVars, appVars, apiKey, rawEnv, transcript, multiple,
                 calls, clientResult, settled>>

\* parseWithServerAI: the response arrives (lines 26-41)
ClientReceive ==
  /\ srvPc = "reply"
  /\ clientResult' = IF reply.status = 200 THEN reply.data ELSE ClientFallback
  /\ srvPc' = "done"
  /\ UNCHANGED <<speechVars, now, tz, wkVars, appVars, apiKey, rawEnv, transcript, multiple,
                 calls, resolved, reply, settled>>

\* the server machines of SpecParse: Friday 2025-11-07, at 12:00 in UTC and
\* at 23:30 in UTC-5
ParseInit ==
  /\ AppConstructed /\ HookConstructed
  /\ wkText = <<>> /\ wkResult = Absent /\ wkPc = "done"
  /\ \/ tz = 0 /\ now = NewLocalDate(2025, 11, 7, 12, 0, 0)
     \/ tz = -300 /\ now = NewLocalDate(2025, 11, 7, 23, 30, -300)
  /\ apiKey \in BOOLEAN
  /\ rawEnv \in {"0", "1", "unset"}
  /\ transcript \in Transcripts
  /\ multiple \in BOOLEAN
  /\ srvPc = "send" /\ calls = <<>> /\ resolved = <<>> /\ settled = <<>>
  /\ reply = [status |-> 0, data |-> <<>>]
  /\ clientResult = <<>>

ParseNext ==
  \/ ClientSend \/ ClientSendFails \/ RouteParse \/ LlmRespond
  \/ SingleReturns \/ WholeReturns \/ PartsReturn \/ ClientReceive

----------------------------------------------------------------------------
(* SpecWeekday: parseWeekdayInTranscript applied to one text *)

WeekdayTexts ==
  {<<"schedule", "dentist", weekdays[i]>> : i \in 1..7}
    \cup {<<"call", "mom">>, <<"dentist", "november", "18th">>,
          <<"meet", "5th", "dec", "friday">>,
          <<"saturday", "or", "monday">>, <<"monday", "or", "saturday">>,
          <<"lunch", "friday", "not", "wednesday">>}

WkInit ==
  /\ AppConstructed /\ SrvIdle /\ HookConstructed
  /\ tz \in Zones
  /\ now \in Clocks(tz)
  /\ wkText \in WeekdayTexts
  /\ wkResult = Absent
  /\ wkPc = "call"

WkResolve ==
  /\ wkPc = "call"
  /\ wkResult' = parseWeekdayInTranscript(wkText, now, tz)
  /\ wkPc' = "done"
  /\ UNCHANGED <<speechVars, now, tz, wkText, appVars, srvVars>>

----------------------------------------------------------------------------
(* The client's heuristic parser: client/src/utils/parseIntent.ts *)

\* INTENT_KEYWORDS, in the order of Object.entries
INTENT_KEYWORDS ==
  << [intent |-> "task",
      keywords |-> {<<"add">>, <<"create">>, <<"new">>, <<"make">>, <<"do">>,
                    <<"complete">>, <<"finish">>, <<"need", "to">>}],
     [intent |-> "reminder",
      keywords |-> {<<"remind">>, <<"reminder">>, <<"alert">>, <<"notify">>,
                    <<"wake", "up">>, <<"don't", "forget">>}],
     [intent |-> "note",
      keywords |-> {<<"note">>, <<"write">>, <<"record">>, <<"remember">>,
                    <<"jot", "down">>}],
     [intent |-> "schedule",
      keywords |-> {<<"schedule">>, <<"meeting">>, <<"appointment">>, <<"book">>,
                    <<"plan">>, <<"arrange">>}],
     [intent |-> "delete",
      keywords |-> {<<"delete">>, <<"remove">>, <<"cancel">>, <<"clear">>, <<"erase">>}],
     [intent |-> "complete",
      keywords |-> {<<"done">>, <<"finished">>, <<"completed">>, <<"accomplished">>,
                    <<"check", "off">>}],
     [intent |-> "findTime",
      keywords |-> {<<"find", "time">>, <<"find", "a", "time">>, <<"when", "can", "i">>,
                    <<"free", "time">>, <<"available", "time">>, <<"good", "time">>,
                    <<"look", "for", "a", "time">>, <<"look", "for", "time">>,
                    <<"find", "me", "a", "time">>, <<"find", "some", "time">>}] >>

\* the words of the texts that hold a one-word keyword inside them
Inside(tok) ==
  CASE tok = "reminder" -> {"remind"}
    [] tok = "finished" -> {"finish"}
    [] tok = "completed" -> {"complete"}
    [] tok = "done" -> {"do"}
    [] tok = "notes" -> {"note"}
    [] OTHER -> {}

\* lowerTranscript.includes(keyword)
IncludesKeyword(text, keyword) ==
  IF Len(keyword) = 1
  THEN \E i \in 1..Len(text) : text[i] = keyword[1] \/ keyword[1] \in Inside(text[i])
  ELSE \E i \in 1..(Len(text) - Len(keyword) + 1) :
         SubSeq(text, i, i + Len(keyword) - 1) = keyword

\* keywords.filter(keyword => lowerTranscript.includes(keyword)).length
MatchCount(text, e) ==
  Cardinality({k \in INTENT_KEYWORDS[e].keywords : IncludesKeyword(text, k)})

\* lines 116-126: the first entry with a keyword in the text decides intent
\* and confidence (min(0.9, 0.5 + 0.1 * matches), in hundredths)
DetectIntent(text) ==
  LET hits == {e \in 1..Len(INTENT_KEYWORDS) : MatchCount(text, e) > 0}
  IN  IF hits = {} THEN [intent |-> "unknown", confidence |-> 0]
      ELSE LET e == CHOOSE h \in hits : \A g \in hits : h <= g
               c == 50 + 10 * MatchCount(text, e)
           IN  [intent |-> INTENT_KEYWORDS[e].intent,
                confidence |-> IF c > 90 THEN 90 ELSE c]

\* Array.prototype.sort((a, b) => a - b)
RECURSIVE SortAsc(_)
SortAsc(q) ==
  IF q = <<>> THEN <<>>
  ELSE LET i == CHOOSE j \in 1..Len(q) : \A l \in 1..Len(q) : q[j] <= q[l]
       IN  <<q[i]>> \o SortAsc(SubSeq(q, 1, i - 1) \o SubSeq(q, i + 1, Len(q)))

\* the client's extractReminderOffsets(text): lines 48-78
clientExtractReminderOffsets(text) ==
  LET minutes == ScanMinutes(text, 1) \o ScanHours(text, 1)
                 \o (IF HasPhrase(text, <<"half", "an", "hour">>) THEN <<30>> ELSE <<>>)
                 \o (IF HasPhrase(text, <<"quarter", "of", "an", "hour">>)
                        \/ HasPhrase(text, <<"quarter", "hour">>) THEN <<15>> ELSE <<>>)
  IN  SortAsc(Dedup(minutes))

\* refersToLastScheduled(text): lines 81-84
refersToLastScheduled(text) ==
  \/ \E i \in 1..Len(text) : text[i] \in {"beforehand", "before"}
  \/ \E i \in 1..(Len(text) - 1) :
       \/ text[i] = "for" /\ text[i + 1] \in {"this", "that"}
       \/ text[i] = "this" /\ text[i + 1] \in {"appointment", "meeting"}
       \/ text[i] = "remind" /\ text[i + 1] = "me"

\* lines 191-212: TIME_PATTERNS.specificTime, "at" and whitespace, an hour in
\* digits (with or without :MM) or as a number word, and an optional am, pm,
\* o'clock or oclock; the value of specificTime at line 210, <<hours, minutes>>,
\* or <<>> when it stays undefined
specificTime(text) ==
  LET WORD_TO_NUMBER(tok) ==
        CASE tok = "one" -> 1 [] tok = "two" -> 2 [] tok = "three" -> 3
          [] tok = "four" -> 4 [] tok = "five" -> 5 [] tok = "six" -> 6
          [] tok = "seven" -> 7 [] tok = "eight" -> 8 [] tok = "nine" -> 9
          [] tok = "ten" -> 10 [] tok = "eleven" -> 11 [] tok = "twelve" -> 12
          [] OTHER -> 0
      hourToken(tok) ==
        IF ClockToken(tok) # <<>> THEN ClockToken(tok)
        ELSE IF WORD_TO_NUMBER(tok) > 0 THEN <<WORD_TO_NUMBER(tok), 0, "", FALSE>>
        ELSE <<>>
      matches == {i \in 1..(Len(text) - 1) : text[i] = "at" /\ hourToken(text[i + 1]) # <<>>}
  IN  IF matches = {} THEN <<>>
      ELSE LET i == CHOOSE j \in matches : \A l \in matches : j <= l
               timeDetails == hourToken(text[i + 1])
               \* timeDetails[3] with everything but letters removed
               ampm == IF timeDetails[3] # "" THEN timeDetails[3]
                       ELSE IF i + 2 <= Len(text) /\ text[i + 2] \in {"am", "pm"}
                            THEN text[i + 2]
                       ELSE IF i + 2 <= Len(text) /\ text[i + 2] \in {"o'clock", "oclock"}
                            THEN "oclock"
                       ELSE ""
               h0 == timeDetails[1]
               h1 == IF ampm = "pm" /\ h0 # 12 THEN h0 + 12 ELSE h0
               h2 == IF ampm = "am" /\ h1 = 12 THEN 0 ELSE h1
               hours == IF ampm = "" /\ h2 >= 1 /\ h2 <= 7 THEN h2 + 12 ELSE h2
           IN  <<hours, timeDetails[2]>>

\* parseSingleTask(transcript): lines 112-273; the specificTime that setHours
\* puts into dueDate, and of extractedData the reminders and
\* applyToLastScheduled members (undefined is Absent)
parseSingleTask(text) ==
  LET reminderOffsets == clientExtractReminderOffsets(text)
      applyToLast == refersToLastScheduled(text)
  IN  [text |-> text,
       specificTime |-> specificTime(text),
       intent |-> DetectIntent(text).intent,
       confidence |-> DetectIntent(text).confidence,
       reminders |-> IF Len(reminderOffsets) > 0 THEN JList(reminderOffsets) ELSE Absent,
       applyToLastScheduled |-> IF Len(reminderOffsets) > 0 /\ applyToLast
                                THEN JBool(TRUE) ELSE Absent]

----------------------------------------------------------------------------
(* SpecText: the text functions of parser and client applied to one text *)

\* clock times as they are dictated: the text, and the hour H, minutes MM and
\* marker it says
TimeCase(text, H, MM, marker) == [text |-> text, H |-> H, MM |-> MM, marker |-> marker]
TimeCases ==
  { TimeCase(<<"dentist", "at", "2pm">>, 2, 0, "pm"),
    TimeCase(<<"dentist", "at", "2", "pm">>, 2, 0, "pm"),
    TimeCase(<<"gym", "at", "6pm">>, 6, 0, "pm"),
    TimeCase(<<"standup", "8am">>, 8, 0, "am"),
    TimeCase(<<"standup", "at", "8", "am">>, 8, 0, "am"),
    TimeCase(<<"flight", "at", "12am">>, 12, 0, "am"),
    TimeCase(<<"lunch", "at", "12pm">>, 12, 0, "pm"),
    TimeCase(<<"lunch", "at", "12", "pm">>, 12, 0, "pm"),
    TimeCase(<<"standup", "at", "8:30am">>, 8, 30, "am"),
    TimeCase(<<"standup", "at", "8:30", "am">>, 8, 30, "am"),
    TimeCase(<<"review", "at", "2:15pm">>, 2, 15, "pm"),
    TimeCase(<<"review", "at", "2:15", "pm">>, 2, 15, "pm") }

\* clock times dictated after "at" without am or pm
BareHourCases ==
  { TimeCase(<<"meet", "sam", "at", "1">>, 1, 0, ""),
    TimeCase(<<"meet", "sam", "at", "5">>, 5, 0, ""),
    TimeCase(<<"meet", "sam", "at", "five">>, 5, 0, ""),
    TimeCase(<<"meet", "sam", "at", "seven">>, 7, 0, ""),
    TimeCase(<<"meet", "sam", "at", "2:15">>, 2, 15, ""),
    TimeCase(<<"meet", "sam", "at", "8">>, 8, 0, ""),
    TimeCase(<<"meet", "sam", "at", "eight">>, 8, 0, ""),
    TimeCase(<<"meet", "sam", "at", "8:30">>, 8, 30, ""),
    TimeCase(<<"meet", "sam", "at", "ten">>, 10, 0, ""),
    TimeCase(<<"meet", "sam", "at", "12">>, 12, 0, ""),
    TimeCase(<<"meet", "sam", "at", "5", "o'clock">>, 5, 0, ""),
    TimeCase(<<"meet", "sam", "at", "three", "o'clock">>, 3, 0, ""),
    TimeCase(<<"meet", "sam", "at", "seven", "oclock">>, 7, 0, ""),
    TimeCase(<<"meet", "sam", "at", "eight", "o'clock">>, 8, 0, ""),
    TimeCase(<<"meet", "sam", "at", "12", "o'clock">>, 12, 0, "") }

TimeTexts == {c.text : c \in TimeCases \cup BareHourCases}

\* fragments with and without reminder phrases
ReminderTexts ==
  { <<"remind", "me", "30", "minutes", "and", "an", "hour", "before", "this", "meeting">>,
    <<"remind", "me", "15", "minutes", "before">>,
    <<"meeting", "for", "30", "minutes">>,
    <<"workout", "for", "an", "hour">>,
    <<"call", "mom", "in", "2", "hours">>,
    <<"half", "an", "hour", "before", "the", "meeting">>,
    <<"quarter", "of", "an", "hour", "beforehand">>,
    <<"notify", "me", "45", "min", "before", "that">>,
    <<"add", "call", "mom">> }

\* commands that start with their verb
VerbCommands ==
  { <<"add", "call", "mom", "tomorrow">>,
    <<"schedule", "dentist", "appointment", "friday", "at", "2pm">>,
    <<"remind", "me", "to", "buy", "milk">>,
    <<"create", "note", "ideas">> }

\* two of them joined by one of the separators
Connectors == {separators[n] : n \in 1..Len(separators)}
JoinedTexts == {a \o sep \o b : a \in VerbCommands, b \in VerbCommands, sep \in Connectors}

\* texts with '.' at the end of a word, before a lower-case word and before
\* a capitalized one
SentenceTexts ==
  { <<"dentist", "at", "2:15", "p.m.", "tomorrow">>,
    <<"standup", "at", "8:30", "a.m.", "with", "sam">>,
    <<"call", "mom.", "Buy", "milk">>,
    <<"dentist", "at", "2:15", "p.m.", "Buy", "milk">>,
    <<"dentist", "at", "2:15", "p.m.">> }

\* texts with one repeated-noun cue that no connector precedes
AnotherTexts ==
  { <<"schedule", "dentist", "appointment", "friday", "another", noun, "monday">> :
      noun \in EventNouns }
    \cup { <<"schedule", "meeting", "at", "2pm", "another", "meeting", "at", "6pm">> }

\* texts whose second fragment starts with no command word: none in it, or
\* one further inside
ContextualTexts ==
  { <<"add", "milk", "and", "eggs">>,
    <<"schedule", "dentist", "appointment", "friday", "at", "2pm", "and", "another", "at", "6">>,
    <<"schedule", "dentist", "friday", "and", "call", "sam", "to", "cancel", "lunch">>,
    <<"schedule", "meeting", "at", "2pm", "and", "lunch", "at", "12", "to", "complete", "plan">> }

\* the texts SpecText starts from
Texts == TimeTexts \cup ReminderTexts \cup JoinedTexts \cup SentenceTexts \cup AnotherTexts
           \cup ContextualTexts

TextInit ==
  /\ AppConstructed /\ SrvIdle /\ HookConstructed
  /\ tz = 0
  /\ now = NewLocalDate(2025, 11, 7, 12, 0, tz)
  /\ wkText \in Texts
  /\ wkResult = Absent
  /\ wkPc = "text"

\* parseTimeInTranscript(wkText)
CallParseTime ==
  /\ wkPc = "text"
  /\ wkResult' = parseTimeInTranscript(wkText)
  /\ wkPc' = "parseTimeInTranscript"
  /\ UNCHANGED <<speechVars, now, tz, wkText, appVars, srvVars>>

\* extractReminderOffsets(wkText), server
CallExtractReminderOffsets ==
  /\ wkPc = "text"
  /\ wkResult' = JList(extractReminderOffsets(wkText))
  /\ wkPc' = "extractReminderOffsets"
  /\ UNCHANGED <<speechVars, now, tz, wkText, appVars, srvVars>>

\* extractReminderOffsets(wkText), client
CallClientExtractReminderOffsets ==
  /\ wkPc = "text"
  /\ wkResult' = JList(clientExtractReminderOffsets(wkText))
  /\ wkPc' = "clientExtractReminderOffsets"
  /\ UNCHANGED <<speechVars, now, tz, wkText, appVars, srvVars>>

\* parseSingleTask(wkText), client
CallParseSingleTask ==
  /\ wkPc = "text"
  /\ wkResult' = parseSingleTask(wkText)
  /\ wkPc' = "parseSingleTask"
  /\ UNCHANGED <<speechVars, now, tz, wkText, appVars, srvVars>>

\* lines 572-590 of parseMultipleCommands for the command resolved for the
\* fragment wkText from an object of the model
CallLinkReminders ==
  /\ wkPc = "text"
  /\ \E obj \in LlmObjects : wkResult' = LinkReminders(SpreadOver(wkText, obj))
  /\ wkPc' = "LinkReminders"
  /\ UNCHANGED <<speechVars, now, tz, wkText, appVars, srvVars>>

\* lines 515 and 528-555 of parseMultipleCommands: the fragments of wkText
\* and their normalized forms
CallSplitIntoParts ==
  /\ wkPc = "text"
  /\ wkResult' = [parts |-> splitIntoParts(wkText), normalized |-> normalizedParts(wkText)]
  /\ wkPc' = "splitIntoParts"
  /\ UNCHANGED <<speechVars, now, tz, wkText, appVars, srvVars>>

TextNext ==
  \/ CallSplitIntoParts
  \/ CallParseTime \/ CallExtractReminderOffsets \/ CallClientExtractReminderOffsets
  \/ CallParseSingleTask \/ CallLinkReminders

----------------------------------------------------------------------------
(* SpecSpeech: the hook client/src/hooks/useSpeechRecognition.ts *)

\* one SpeechRecognitionResult of an event: result[0].transcript,
\* result[0].confidence (percent) and result.isFinal
Result(t, c, f) == [transcript |-> t, confidence |-> c, isFinal |-> f]
\* what the engine reports: interim results (confidence 0) and final ones
Results ==
  {Result(t, 0, FALSE) : t \in {<<"call">>, <<"buy", "milk">>}}
    \cup {Result(t, 90, TRUE) : t \in {<<"call", "mom">>, <<"buy", "milk">>}}
\* event.results from event.resultIndex on
Events == {<<r>> : r \in Results} \cup {<<r, q>> : r \in Results, q \in Results}

\* the number of result events in one behaviour
MaxEvents == 3

\* lines 85-101: the transcripts of the final (or the interim) results of
\* the event, concatenated
RECURSIVE Concatenated(_, _, _)
Concatenated(event, final, i) ==
  IF i > Len(event) THEN <<>>
  ELSE (IF event[i].isFinal = final THEN event[i].transcript ELSE <<>>)
         \o Concatenated(event, final, i + 1)
RECURSIVE MaxConfidence(_, _)
MaxConfidence(event, i) ==
  IF i > Len(event) THEN 0
  ELSE LET rest == MaxConfidence(event, i + 1)
       IN  IF event[i].confidence > rest THEN event[i].confidence ELSE rest

\* startListening(): lines 40-53; recognition.start() throws when the engine
\* is already started (onError is called, isListening stays)
StartListening ==
  /\ keepAlive' = TRUE
  /\ recognizing' = TRUE
  /\ isListening' = IF recognizing THEN isListening ELSE TRUE
  /\ UNCHANGED <<now, tz, wkVars, appVars, srvVars, hookTranscript, hookConfidence,
                 debounceTimeout, onResults, finals, events>>

\* stopListening(): lines 55-61; the engine ends later (onend)
StopListening ==
  /\ isListening
  /\ keepAlive' = FALSE
  /\ isListening' = FALSE
  /\ UNCHANGED <<now, tz, wkVars, appVars, srvVars, recognizing, hookTranscript,
                 hookConfidence, debounceTimeout, onResults, finals, events>>

\* recognition.onresult(event): lines 84-129
RecognitionOnResult ==
  /\ recognizing /\ events < MaxEvents
  /\ \E event \in Events :
       LET finalTranscript == Concatenated(event, TRUE, 1)
           interimTranscript == Concatenated(event, FALSE, 1)
           maxConfidence == MaxConfidence(event, 1)
           fullTranscript == IF finalTranscript # <<>> THEN finalTranscript
                             ELSE interimTranscript
       IN  /\ hookTranscript' = fullTranscript
           /\ hookConfidence' = maxConfidence
           /\ IF Len(finalTranscript) > 0
              THEN /\ debounceTimeout' = <<Result(fullTranscript, maxConfidence, TRUE)>>
                   /\ finals' = Append(finals, finalTranscript)
                   /\ UNCHANGED onResults
              ELSE /\ debounceTimeout' = <<>>
                   /\ onResults' = Append(onResults,
                                          Result(fullTranscript, maxConfidence, FALSE))
                   /\ UNCHANGED finals
  /\ events' = events + 1
  /\ UNCHANGED <<now, tz, wkVars, appVars, srvVars, recognizing, isListening, keepAlive>>

\* the callback of lines 114-120, 2 seconds after the timer was set and not
\* cleared
DebounceFires ==
  /\ debounceTimeout # <<>>
  /\ onResults' = Append(onResults, debounceTimeout[1])
  /\ debounceTimeout' = <<>>
  /\ UNCHANGED <<now, tz, wkVars, appVars, srvVars, recognizing, isListening, keepAlive,
                 hookTranscript, hookConfidence, finals, events>>

\* recognition.onerror(event): lines 131-135
RecognitionOnError ==
  /\ recognizing
  /\ isListening' = FALSE
  /\ UNCHANGED <<now, tz, wkVars, appVars, srvVars, recognizing, keepAlive,
                 hookTranscript, hookConfidence, debounceTimeout, onResults, finals,
                 events>>

\* recognition.onend(): lines 137-149, with continuous = true the engine is
\* started again while keepAlive is set
RecognitionOnEnd ==
  /\ recognizing
  /\ recognizing' = keepAlive
  /\ isListening' = keepAlive
  /\ UNCHANGED <<now, tz, wkVars, appVars, srvVars, keepAlive, hookTranscript,
                 hookConfidence, debounceTimeout, onResults, finals, events>>

SpeechInit ==
  /\ AppConstructed /\ SrvIdle /\ HookConstructed
  /\ tz = 0
  /\ now = NewLocalDate(2025, 11, 7, 12, 0, tz)
  /\ wkText = <<>> /\ wkResult = Absent /\ wkPc = "done"

SpeechNext ==
  \/ StartListening \/ StopListening
  \/ RecognitionOnResult \/ DebounceFires
  \/ RecognitionOnError \/ RecognitionOnEnd

vars == <<now, tz, wkVars, appVars, srvVars, speechVars>>

SpecSpeech == SpeechInit /\ [][SpeechNext]_vars

\* a timer that was set and is not cleared fires
SpecSpeechLive == SpecSpeech /\ WF_vars(DebounceFires)

SpecWeekday == WkInit /\ [][WkResolve]_vars

SpecApp == AppInit /\ [][AppNext]_vars

SpecParse == ParseInit /\ [][ParseNext]_vars

SpecText == TextInit /\ [][TextNext]_vars

----------------------------------------------------------------------------
(* Claims about the weekday resolver and the App component *)

\* the index (0 = Sunday) of the only weekday a text names
OnlyWeekday(text) == CHOOSE i \in 0..6 : MatchedWeekdays(text) = {i + 1}
NamesOnlyWeekday(text) ==
  DateMatches(text) = {} /\ Cardinality(MatchedWeekdays(text)) = 1

\* C10: for every weekday W, local date D at any time of day and every UTC
\* offset, parseWeekdayInTranscript on a text naming only W returns the local
\* calendar date D + ((index(W) - weekday(D) + 7) mod 7): D itself when W is
\* the weekday of D, else the nearest upcoming W.
C10_WeekdayIsLocalDate ==
  (wkPc = "done" /\ NamesOnlyWeekday(wkText)) =>
    wkResult = JStr(CivilFromDays(LocalDay(now, tz)
                 + ((OnlyWeekday(wkText) - getDay(now, tz) + 7) % 7)))


\* the weekday name that occurs first in a text that names one
FirstWeekdayInText(text) ==
  LET at == {i \in 1..Len(text) : \E d \in 1..7 : text[i] = weekdays[d]}
  IN  text[CHOOSE i \in at : \A j \in at : i <= j]

\* C20: for a text with several weekday names and no explicit calendar date,
\* parseWeekdayInTranscript resolves the weekday that occurs first in the
\* text ('saturday or monday' resolves Saturday): it returns what it returns
\* for that weekday alone.
C20_FirstWeekdayInTextWins ==
  ( /\ wkPc = "done" /\ DateMatches(wkText) = {}
    /\ Cardinality(MatchedWeekdays(wkText)) > 1 ) =>
      wkResult = parseWeekdayInTranscript(<<FirstWeekdayInText(wkText)>>, now, tz)

\* the month and the day an explicit date of the text names
NamedMonthDay(text) ==
  LET i == FirstDateMatch(text)
  IN  IF monthNames(text[i]) > 0
      THEN <<monthNames(text[i]), dayNumber(text[i + 1])>>
      ELSE <<monthNames(text[i + 1]), dayNumber(text[i])>>

\* C21: for a text with an explicit '<Month> <Day>' or '<Day> <Month>' date,
\* parseWeekdayInTranscript returns that month and day of the current (local)
\* year, for every UTC offset of the machine, also when a weekday name
\* appears in the text.
C21_ExplicitDateIsThatDate ==
  (wkPc = "done" /\ DateMatches(wkText) # {}) =>
    wkResult = JStr(<<LocalCivil(now, tz)[1]>> \o NamedMonthDay(wkText))

IsSortedAsc(q) == \A i \in 1..(Len(q) - 1) : q[i] <= q[i + 1]
IsSortedDesc(q) == \A i \in 1..(Len(q) - 1) : q[i] >= q[i + 1]
NoDuplicates(q) == \A i, j \in 1..Len(q) : i # j => q[i] # q[j]

\* C2: no task is created for a command whose applyToLastScheduled is true,
\* whatever its intent (findTime included).
C2_NoTaskForApplyToLast ==
  \A c \in created : ~batch[c.pos].applyToLastScheduled

\* the batch of C3: a schedule command with a due date (no reminders of its
\* own), then an apply-to-last command with reminders [30], nothing carried in
C3_Batch ==
  /\ appPc = "idle" /\ Len(batch) = 2 /\ carriedIn = NoId
  /\ batch[1].intent = "schedule" /\ Truthy(batch[1].dueDate)
  /\ IsAbsent(batch[1].reminders) /\ ~batch[1].applyToLastScheduled
  /\ batch[2].applyToLastScheduled /\ batch[2].reminders = JList(<<30>>)
  /\ batch[2].intent # "findTime"

InputsSorted ==
  \A cmd \in Commands :
    cmd.reminders.k = "list" =>
      NoDuplicates(cmd.reminders.v) /\ IsSortedDesc(cmd.reminders.v)

\* C4: every incoming reminders list being sorted and duplicate-free, every
\* task's reminders list, when present, is sorted (in one direction or the
\* other) and holds no duplicate.
C4_RemindersSortedUnique ==
  InputsSorted =>
    \A i \in 1..Len(tasks) :
      tasks[i].reminders.k = "list" =>
        /\ NoDuplicates(tasks[i].reminders.v)
        /\ IsSortedAsc(tasks[i].reminders.v) \/ IsSortedDesc(tasks[i].reminders.v)


\* the task list entry with an id
TaskOf(id) == tasks[IndexOfId(tasks, id)]

\* a command the forEach loop makes a task from
IsGenuineNew(cmd) ==
  /\ ~cmd.applyToLastScheduled
  /\ ~((cmd.intent = "reminder" \/ StartsWithRemindOrNotify(cmd.text)) /\ Truthy(cmd.reminders))
  /\ cmd.intent \in {"task", "reminder", "note", "schedule"}

\* the batch of C16: reminders stashed while there is no last-scheduled
\* target, then two genuine new commands, the second with no reminders of
\* its own
C16_Batch ==
  /\ appPc = "idle" /\ Len(batch) = 3 /\ carriedIn = NoId
  /\ batch[1].intent # "findTime" /\ Truthy(batch[1].reminders)
  /\ \/ batch[1].applyToLastScheduled
     \/ batch[1].intent = "reminder" \/ StartsWithRemindOrNotify(batch[1].text)
  /\ IsGenuineNew(batch[2]) /\ IsGenuineNew(batch[3])
  /\ IsAbsent(batch[3].reminders)

\* C16: stashed pending reminders are merged into the first genuine new
\* command that follows and cleared there: the task of the next new command
\* does not get them, also when the first task has no due date.
C16_PendingGoesToFirstTaskOnly ==
  C16_Batch =>
    \A c \in created :
      /\ c.pos = 2 =>
           TaskOf(c.id).reminders =
             JList(MergeSet(ArrayOrEmpty(batch[2].reminders), batch[1].reminders.v))
      /\ c.pos = 3 => IsAbsent(TaskOf(c.id).reminders)

\* C17: a command with intent 'reminder' that carries scheduling data of its
\* own (date, time or dueDate) together with reminders is a genuine new
\* command: a task is made for it.
C17_ScheduledReminderIsNewTask ==
  appPc = "idle" =>
    \A p \in 1..Len(batch) :
      ( /\ batch[p].intent = "reminder" /\ ~batch[p].applyToLastScheduled
        /\ Truthy(batch[p].reminders)
        /\ Truthy(batch[p].date) \/ Truthy(batch[p].time) \/ Truthy(batch[p].dueDate) ) =>
        \E c \in created : c.pos = p

\* the tasks with a due date made for the last batch, and the order in which
\* they were made (found-time tasks after the tasks of the forEach loop)
CreatedWithDueDate == {c \in created : Truthy(TaskOf(c.id).dueDate)}
MadeRank(c) == IF batch[c.pos].intent = "findTime" THEN Len(batch) + c.pos ELSE c.pos

\* C18: after a batch the last-scheduled id is the id of the last task made
\* in the batch that has a due date, or the id carried in when the batch made
\* no task with a due date.
C18_LastScheduledAfterBatch ==
  (appPc = "idle" /\ batch # <<>>) =>
    IF CreatedWithDueDate = {} THEN lastScheduledTaskId = carriedIn
    ELSE \E c \in CreatedWithDueDate :
           /\ \A d \in CreatedWithDueDate : MadeRank(d) <= MadeRank(c)
           /\ lastScheduledTaskId = c.id

\* C27: after any sequence of voice-command batches, task deletions and task
\* updates the stored lastScheduledTaskId is null or the id of a task that is
\* in the task list and has a due date.
C27_LastScheduledIsLiveTask ==
  lastScheduledTaskId # NoId =>
    \E i \in 1..Len(tasks) :
      tasks[i].id = lastScheduledTaskId /\ Truthy(tasks[i].dueDate)

\* C28: a fragment that itself schedules a new item (its command has a time
\* or dueDate) and also has reminder offsets with a 'before' cue results in a
\* materialized task that carries those reminders; it is not turned into an
\* apply-to-last mutation for which no task is made.
C28_SchedulingFragmentKeepsTask ==
  appPc = "idle" =>
    \A p \in 1..Len(batch) :
      ( /\ batch[p].intent \in {"task", "schedule"}
        /\ Truthy(batch[p].time) \/ Truthy(batch[p].dueDate)
        /\ batch[p].reminders.k = "list" /\ Len(batch[p].reminders.v) > 0
        /\ Includes(batch[p].text, "before") ) =>
        \E c \in created :
          /\ c.pos = p
          /\ \A k \in 1..Len(batch[p].reminders.v) :
               \E m \in 1..Len(TaskOf(c.id).reminders.v) :
                 TaskOf(c.id).reminders.v[m] = batch[p].reminders.v[k]

----------------------------------------------------------------------------
(* Claims about the parser *)

\* every response a call received was text that is no JSON
OnlyGarbage(call) ==
  /\ Len(call.seen) > 0
  /\ \A i \in 1..Len(call.seen) : call.seen[i] = "garbage"

\* C1: when every LLM response of one parseVoiceCommand call is unparseable,
\* the call returns the heuristic fallback: intent schedule or unknown,
\* confidence 0.5 and a title; never an object without intent and confidence.
C1_GarbageDegradesToFallback ==
  \A c \in 1..Len(calls) :
    (calls[c].stage = "done" /\ OnlyGarbage(calls[c])) =>
      /\ calls[c].out.intent \in {JStr(<<"schedule">>), JStr(<<"unknown">>)}
      /\ calls[c].out.confidence = JNum(50)
      /\ Truthy(calls[c].out.title)

\* the request is answered by parseMultipleCommands
Answered == srvPc \in {"reply", "done"} /\ reply.status = 200 /\ multiple

TomorrowOnly(text) ==
  Includes(text, "tomorrow") /\ ~Includes(text, "today") /\ ~Includes(text, "tonight")

\* the local date of the day after now
TomorrowLocal == JStr(CivilFromDays(LocalDay(now, tz) + 1))

\* fragment i resolved to a time, without date and dueDate, and no earlier
\* fragment resolved to a date
TimeOnlyFirst(i) ==
  /\ resolved[i].time.k = "string"
  /\ ~Truthy(resolved[i].date) /\ ~Truthy(resolved[i].dueDate)
  /\ \A j \in 1..(i - 1) : ~Truthy(resolved[j].date) /\ ~Truthy(resolved[j].dueDate)

\* C5: with "tomorrow" in the transcript (and neither today nor tonight), a
\* returned command resolved to a time without date and dueDate, and with no
\* earlier dated command, carries tomorrow's local date, for one fragment as
\* for several.
C5_TomorrowBackfilled ==
  (Answered /\ TomorrowOnly(transcript) /\ Len(reply.data) = Len(resolved)) =>
    \A i \in 1..Len(resolved) :
      TimeOnlyFirst(i) => reply.data[i].date = TomorrowLocal

\* C6: in a batch of several fragments the commands resolved for the
\* fragments are all returned, whatever one fragment resolved to (an LLM
\* error, malformed output, wrongly typed fields): the batch is never
\* replaced by one 'unknown' command.
C6_BatchSurvivesBadFragment ==
  (Answered /\ Len(resolved) > 1) =>
    /\ Len(reply.data) = Len(resolved)
    /\ \A i \in 1..Len(resolved) : reply.data[i].text = resolved[i].text

\* the LLM was of no use to the request: no key, or every request failed
LlmUnavailable ==
  \/ ~apiKey
  \/ /\ apiKey /\ Len(calls) > 0
     /\ \A c \in 1..Len(calls) :
          Len(calls[c].seen) > 0 /\ \A i \in 1..Len(calls[c].seen) : calls[c].seen[i] = "throw"

\* a command of the local regex parser: intent, date and time from its text
IsHeuristic(cmd) ==
  /\ cmd.error
  /\ cmd.date = parseWeekdayInTranscript(cmd.text, now, tz) \/ Truthy(cmd.dueDate)
  /\ cmd.time = parseTimeInTranscript(cmd.text)

\* C7: with the LLM unavailable a parse request that reached the server ends
\* with commands of the local regex parser, not with the bare 'unknown'
\* command whose title is the whole transcript.
C7_UnavailableLlmFallsBack ==
  (srvPc = "done" /\ reply.status # 0 /\ transcript # <<>> /\ LlmUnavailable) =>
    /\ clientResult # ClientFallback
    /\ \A i \in 1..Len(clientResult) : IsHeuristic(clientResult[i])

Intents == {"task", "reminder", "note", "schedule", "findTime", "delete",
            "complete", "unknown"}

ConformsToSchema(cmd) ==
  /\ cmd.intent.k = "string" /\ cmd.intent.v[1] \in Intents
  /\ cmd.confidence.k = "number"
  /\ cmd.confidence.v[1] >= 0 /\ cmd.confidence.v[1] <= 100

\* C8: whatever JSON object the LLM returns, every command parseVoiceCommand
\* and parseMultipleCommands return has an intent of the schema and a
\* confidence in [0, 1].
C8_ReturnedCommandsConform ==
  /\ \A c \in 1..Len(calls) :
       (calls[c].stage = "done" /\ calls[c].last.kind = "object") =>
         ConformsToSchema(calls[c].out)
  /\ Answered => \A i \in 1..Len(reply.data) :
       (\A c \in 1..Len(calls) : calls[c].last.kind = "object") =>
         ConformsToSchema(reply.data[i])

\* C9: a command built from an LLM response without date and dueDate, for a
\* text naming a weekday or a calendar date, is returned with the date
\* parseWeekdayInTranscript computes, in raw mode as in rich-prompt mode.
C9_DateBackfilledOnEveryPath ==
  \A c \in 1..Len(calls) :
    ( /\ calls[c].stage = "done" /\ calls[c].last.kind = "object"
      /\ ~Truthy(calls[c].last.obj.date) /\ ~Truthy(calls[c].last.obj.dueDate)
      /\ Truthy(parseWeekdayInTranscript(calls[c].text, now, tz)) ) =>
      calls[c].out.date = parseWeekdayInTranscript(calls[c].text, now, tz)

\* the request was split into several fragments and answered
BatchAnswered == Answered /\ Len(calls) > 1

\* C15: the post-processing of a batch starts only after every fragment's
\* parseVoiceCommand call has returned, and it takes the results in fragment
\* order, whatever the order in which the calls returned.
C15_AllReturnedThenFragmentOrder ==
  BatchAnswered =>
    /\ \A c \in 1..Len(calls) : calls[c].stage = "done"
    /\ Len(settled) = Len(calls)
    /\ Len(resolved) = Len(calls)
    /\ \A i \in 1..Len(resolved) :
         /\ resolved[i] = calls[i].out
         /\ resolved[i].text = normalizedParts(ServerText)[i]
    /\ Len(reply.data) = Len(resolved) =>
         \A i \in 1..Len(resolved) : reply.data[i].text = normalizedParts(ServerText)[i]

\* the second fragment's call returned before the first one's
C15_Witness ==
  BatchAnswered /\ settled = <<2, 1>> /\ Len(reply.data) = 2

\* C19: one parseVoiceCommand call issues at most two LLM requests: a
\* malformed response is followed by exactly one retry, then the heuristic
\* fallback is used.
C19_AtMostTwoRequests ==
  \A c \in 1..Len(calls) : Len(calls[c].seen) <= 2

\* C29: every command parseMultipleCommands returns with date, time and
\* dueDate set (a date string, an HH:mm string with real minutes, an instant)
\* has a dueDate that denotes the same local calendar date and the same clock
\* time as its (date, time) fields, also when the transcript holds a
\* pm/tonight/evening hint.
C29_DueDateAgreesWithDateAndTime ==
  (Answered /\ Len(calls) > 1) =>
    \A i \in 1..Len(reply.data) :
      LET cmd == reply.data[i]
      IN  ( /\ cmd.date.k = "string" /\ cmd.time.k = "string" /\ cmd.dueDate.k = "string"
            /\ cmd.time.v[2] # NaN ) =>
            /\ LocalCivil(cmd.dueDate.v[1], tz) = cmd.date.v
            /\ cmd.dueDate.v[1] - LocalDay(cmd.dueDate.v[1], tz) * MinutesPerDay + tz
                 = cmd.time.v[1] * 60 + cmd.time.v[2]

----------------------------------------------------------------------------
(* Claims about the speech recognition hook *)

\* the number of results delivered to onResult with isFinal = true
DeliveredFinal == Cardinality({k \in 1..Len(onResults) : onResults[k].isFinal})

\* C30: every final recognition result is eventually delivered to onResult
\* with isFinal = true once the debounce elapses, also when further interim
\* results arrive before the timer fires: when n final results were
\* received, eventually n were delivered.
C30_FinalEventuallyDelivered ==
  \A n \in 1..MaxEvents : (Len(finals) >= n) ~> (DeliveredFinal >= n)

----------------------------------------------------------------------------
(* Claims about the text functions *)

\* H:MM on the 24-hour clock of hour H with marker am or pm
Hour24(H, marker) ==
  IF marker = "pm" THEN (IF H = 12 THEN 12 ELSE H + 12)
  ELSE (IF H = 12 THEN 0 ELSE H)

\* C11: for a clock time H(:MM) am|pm, written with or without a space before
\* the marker and with or without ':MM', parseTimeInTranscript returns the
\* 24-hour time as 'HH:mm' with HH in 00..23 and mm in 00..59 ('2pm' gives
\* '14:00', '12am' gives '00:00', '8:30 am' gives '08:30').
C11_TimeIs24hClock ==
  \A c \in TimeCases :
    (wkPc = "parseTimeInTranscript" /\ wkText = c.text) =>
      wkResult = JStr(<<Hour24(c.H, c.marker), c.MM>>)

\* the values of a list
Values(q) == {q[i] : i \in 1..Len(q)}

C12_Text ==
  <<"remind", "me", "30", "minutes", "and", "an", "hour", "before", "this", "meeting">>

\* C12: for 'remind me 30 minutes and an hour before this meeting'
\* extractReminderOffsets (server and client) returns exactly the offsets
\* {30, 60}, and the command for that fragment carries them and is flagged
\* applyToLastScheduled (server post-processing and client parser).
C12_OffsetsAndFlag ==
  wkText = C12_Text =>
    /\ wkPc \in {"extractReminderOffsets", "clientExtractReminderOffsets"} =>
         Values(wkResult.v) = {30, 60} /\ Len(wkResult.v) = 2
    /\ wkPc \in {"LinkReminders", "parseSingleTask"} =>
         /\ wkResult.applyToLastScheduled = JBool(TRUE)
         /\ wkResult.reminders.k = "list"
         /\ Values(wkResult.reminders.v) = {30, 60}

C12_Witness ==
  wkText = C12_Text /\ wkPc = "LinkReminders" /\ Truthy(wkResult.reminders)

\* a fragment mentions minutes or hours
MentionsDuration(text) ==
  \E i \in 1..Len(text) : text[i] \in {"minute", "minutes", "min", "hour", "hours"}

\* a fragment holds a 'before' cue or a back-reference phrase
HasCue(text) ==
  \/ \E i \in 1..Len(text) : text[i] \in {"before", "beforehand"}
  \/ \E i \in 1..(Len(text) - 1) :
       \/ text[i] \in {"this", "that"} /\ text[i + 1] \in {"appointment", "meeting"}
       \/ text[i] = "for" /\ text[i + 1] \in {"this", "that"}
       \/ text[i] = "remind" /\ text[i + 1] = "me"

\* C13: a fragment that mentions minutes or hours without a 'before' cue and
\* without a back-reference phrase ('meeting for 30 minutes') yields a
\* command with no reminders and no applyToLastScheduled flag, in
\* parseSingleTask as in the server post-processing.
C13_BareDurationIsNoReminder ==
  ( /\ wkPc \in {"parseSingleTask", "LinkReminders"}
    /\ MentionsDuration(wkText) /\ ~HasCue(wkText) ) =>
      ~Truthy(wkResult.reminders) /\ ~Truthy(wkResult.applyToLastScheduled)

\* C14: an utterance of two verb-initial commands joined by one connector
\* phrase ('add call mom tomorrow and schedule dentist appointment friday at
\* 2pm') is split into exactly those two fragments, in order, and each
\* normalized fragment is its command verb followed by its content.
C14_TwoCommandsTwoFragments ==
  \A a \in VerbCommands, b \in VerbCommands, sep \in Connectors :
    (wkPc = "splitIntoParts" /\ wkText = a \o sep \o b) =>
      /\ wkResult.parts = <<a, b>>
      /\ wkResult.normalized = <<a, b>>
      /\ \A i \in 1..2 : wkResult.normalized[i][1] \in CommandWords

C14_Witness ==
  /\ wkPc = "splitIntoParts"
  /\ wkText = <<"add", "call", "mom", "tomorrow", "and", "schedule", "dentist",
                "appointment", "friday", "at", "2pm">>
  /\ Len(wkResult.parts) = 2

\* C22: in parseSingleTask a clock time 'at H' without am or pm is resolved
\* with the hours 1 to 7 shifted to PM (H + 12) and the hours 8 to 12 left
\* unchanged, for every way of writing the hour without am/pm: digits, number
\* words, with or without "o'clock".
C22_BareHourBiasedToPm ==
  \A c \in BareHourCases :
    (wkPc = "parseSingleTask" /\ wkText = c.text) =>
      wkResult.specificTime = <<IF c.H >= 1 /\ c.H <= 7 THEN c.H + 12 ELSE c.H, c.MM>>

\* texts with a single reminder phrase and the offset listed for its form
SinglePhrase(text, offset) == [text |-> text, offset |-> offset]
SinglePhrases ==
  { SinglePhrase(<<"half", "an", "hour", "before", "the", "meeting">>, 30),
    SinglePhrase(<<"quarter", "of", "an", "hour", "beforehand">>, 15),
    SinglePhrase(<<"workout", "for", "an", "hour">>, 60),
    SinglePhrase(<<"call", "mom", "in", "2", "hours">>, 120),
    SinglePhrase(<<"remind", "me", "15", "minutes", "before">>, 15),
    SinglePhrase(<<"notify", "me", "45", "min", "before", "that">>, 45) }

\* C23: for a text with a single reminder phrase extractReminderOffsets (of
\* the server and of the client) returns exactly the value listed for that
\* form and nothing else: 'half an hour' {30} and 'quarter of an hour' {15}
\* without an extra 60, 'an hour' {60}, 'N hours' {N*60}, 'N minutes' {N}.
C23_SinglePhraseSingleOffset ==
  \A c \in SinglePhrases :
    ( /\ wkPc \in {"extractReminderOffsets", "clientExtractReminderOffsets"}
      /\ wkText = c.text ) =>
        Values(wkResult.v) = {c.offset}

\* a token whose first character is a capital letter
StartsWithCapital(tok) == tok \in {"Buy"}

\* C24: the sentence-boundary stage of the splitter splits only where '.',
\* '!' or '?' is followed by whitespace and a capital letter; a time
\* expression such as '2:15 p.m.' followed by a lower-case word stays inside
\* one fragment.
C24_SentenceSplitNeedsCapital ==
  (wkPc = "splitIntoParts" /\ wkText \in SentenceTexts) =>
    Len(wkResult.parts) =
      1 + Cardinality({i \in 1..(Len(wkText) - 1) :
                         EndsSentence(wkText[i]) /\ StartsWithCapital(wkText[i + 1])})

\* the position of the one "another" of a text
AnotherIn(text) == CHOOSE i \in 1..Len(text) : text[i] = "another"

\* C25: a segment with one 'another appointment/meeting/event' cue that no
\* connector precedes is split into exactly two fragments, the text before
\* the cue and the text that starts at 'another'; no additional fragment
\* (such as the bare noun) is output.
C25_AnotherCueTwoFragments ==
  (wkPc = "splitIntoParts" /\ wkText \in AnotherTexts) =>
    wkResult.parts = << SubSeq(wkText, 1, AnotherIn(wkText) - 1),
                        SubSeq(wkText, AnotherIn(wkText), Len(wkText)) >>

\* C26: for every split fragment that does not start with a recognized action
\* verb the normalizer injects one at its start, 'schedule' when the fragment
\* has a time expression and the base noun is appointment, meeting or event,
\* otherwise 'add'; a verb further inside the fragment does not count.
C26_VerbInjectedUnlessLeading ==
  (wkPc = "splitIntoParts" /\ Len(wkResult.parts) > 1) =>
    \A i \in 1..Len(wkResult.parts) :
      wkResult.parts[i][1] \notin CommandWords =>
        wkResult.normalized[i][1] =
          IF hasTime(wkResult.parts[i]) /\ baseNoun(wkText) # <<>>
             /\ baseNoun(wkText)[1] \in EventNouns
          THEN "schedule" ELSE "add"

====
